---- MODULE Spec2Model ----
(***************************************************************************)
(* Model of the per-user message dispatch and streaming-response core of   *)
(* ezekiel-assistant-bot: bot/bot.py (Bot), bot/openai_utils.py            *)
(* (Assistant) and bot/firestore.py (Firestore).                           *)
(*                                                                         *)
(* Scheduling: one asyncio event loop.  A handler runs without             *)
(* interruption from one await that really suspends to the next, so every  *)
(* action below is the code between two such suspension points.  Awaits of *)
(* coroutines that return without suspending (register_user_if_not_        *)
(* registered, Semaphore.acquire on a free semaphore, ...) do not split an *)
(* action.  Firestore calls are synchronous and are assumed to succeed.    *)
(*                                                                         *)
(* asyncio.Semaphore: locked() is "the value is 0"; release() adds 1 and   *)
(* wakes a waiter, which takes the semaphore when it runs next.            *)
(*                                                                         *)
(* Inbound messages are private-chat messages.  In Spec, FairSpec, SpecGen *)
(* and SpecRelay they are not replies and the chat mode of a user stays    *)
(* the default one: switch_context_if_needed returns NOT_NEEDED.  In       *)
(* SpecSwitch they may be replies and the chat mode is changed by          *)
(* set_chat_mode_handle.  The "artist" branch of message_handle is not     *)
(* taken in any of them.                                                   *)
(***************************************************************************)
EXTENDS Integers, Sequences, FiniteSets, TLC

(***************************************************************************)
(* Bounds of the model                                                     *)
(***************************************************************************)
\* total number of handler invocations started in one behaviour
MaxOps == 2
\* provider chunks delivered to one generate invocation
MaxChunks == 2
\* content deltas of one synthetic stream given to the relay loop
MaxRelayChunks == 5
\* messages and chat-mode choices handled in one behaviour of SpecSwitch
MaxSwitchOps == 4
\* /cancel commands handled in one behaviour
MaxCancels == 1
\* Turns of history given to the generator in the generator-only specification
MaxHist == 3

Users == {"u1", "u2"}
\* the users whose requests arrive in Spec
Senders == {"u1"}
Procs == {1, 2}
NoProc == 0

(***************************************************************************)
(* Program constants                                                       *)
(***************************************************************************)
USER_N_REMAINING_TOKENS_INITIAL_VALUE == 50000
USER_N_REMAINING_TRANSCRIBED_SECONDS_INITIAL_VALUE == 30
USER_N_REMAINING_GENERATED_IMAGES_INITIAL_VALUE == 5
\* bot_config.py: the number of images one request generates
return_n_generated_images == 1
MESSAGE_LENGTH_LIMIT == 4096
\* "update only when 100 new symbols are ready"
EDIT_THRESHOLD == 100

OPENAI_SUPPORTED_MODELS == {"gpt-3.5-turbo", "gpt-4o"}
DefaultModel == "gpt-3.5-turbo"
DefaultChatMode == "assistant"
\* the chat modes a user chooses from in set_chat_mode_handle
ChatModes == {"assistant", "code_assistant"}

\* Python's None for integer-valued and id-valued attributes
None == -1

(***************************************************************************)
(* Text.  An answer is a sequence of characters; "x" stands for any        *)
(* non-blank character.                                                    *)
(***************************************************************************)
Rep(c, n) == [i \in 1..n |-> c]

\* the value of response_message before the first successful create
NoneText == <<"None">>

RECURSIVE LStrip(_)
LStrip(s) == IF s # <<>> /\ Head(s) = " " THEN LStrip(Tail(s)) ELSE s

RECURSIVE RStrip(_)
RStrip(s) ==
    IF s # <<>> /\ s[Len(s)] = " " THEN RStrip(SubSeq(s, 1, Len(s) - 1)) ELSE s

\* str.strip()
Strip(s) == RStrip(LStrip(s))

\* answer[:limit]
Truncate(s, limit) == IF Len(s) > limit THEN SubSeq(s, 1, limit) ELSE s

Abs(n) == IF n < 0 THEN -n ELSE n

(***************************************************************************)
(* Firestore documents                                                     *)
(***************************************************************************)
\* a Turn as message_handle_fn stores it (its "date" is written, never read)
Turn(user, bot, message_id) ==
    [user |-> user, bot |-> bot, message_id |-> message_id]

\* an entry of n_used_tokens; Absent when the model has no entry yet
Absent == [n_input_tokens |-> None, n_output_tokens |-> None]

(***************************************************************************)
(* Assistant: the streaming generator (openai_utils.py)                    *)
(***************************************************************************)
EnableMessageStreaming == TRUE

AssistantResponse(message, n_in, n_out, n_removed, is_finished) ==
    [message |-> message, n_input_tokens |-> n_in, n_output_tokens |-> n_out,
     n_messages_removed |-> n_removed, is_finished |-> is_finished]

NoResponse == AssistantResponse(<<>>, None, None, 0, FALSE)

_compose_completion_message(role, content) == [role |-> role, content |-> content]

\* the context with the newest Turn first
RECURSIVE ComposeContext_newest_first(_)
ComposeContext_newest_first(dialog_messages) ==
    IF dialog_messages = <<>> THEN <<>>
    ELSE ComposeContext_newest_first(Tail(dialog_messages))
         \o << _compose_completion_message("user", Head(dialog_messages).user),
               _compose_completion_message("assistant", Head(dialog_messages).bot) >>

RECURSIVE ComposeContext(_)
ComposeContext(dialog_messages) ==
    IF dialog_messages = <<>> THEN <<>>
    ELSE << _compose_completion_message("user", Head(dialog_messages).user),
            _compose_completion_message("assistant", Head(dialog_messages).bot) >>
         \o ComposeContext(Tail(dialog_messages))

_compose_completion_messages(new_message_text, dialog_messages, chat_mode) ==
    << _compose_completion_message("system", chat_mode) >>
    \o ComposeContext(dialog_messages)
    \o << _compose_completion_message("user", new_message_text) >>


\* chunks of the provider stream: a content delta, or the usage chunk
NoUsage == <<None, None>>
ContentChunk == [choices |-> TRUE, content |-> Rep("x", 59) \o <<" ">>, usage |-> NoUsage]
UsageChunk == [choices |-> FALSE, content |-> <<>>, usage |-> <<5, 2>>]
ChunkSet == {ContentChunk, UsageChunk}

\* what the provider does at an await of the generator: create returns ("ok"),
\* the stream gives a chunk or ends, or either raises openai.BadRequestError
\* for a request over the context length ("bad_request") or another error
\* ("error"); "bad_request_other" is an openai.BadRequestError (status 400)
\* for any other reason
Event(kind, c) == [kind |-> kind, chunk |-> c]
CreateEvents == {Event(k, UsageChunk) : k \in {"ok", "bad_request", "error"}}
StreamEvents == {Event(k, UsageChunk) : k \in {"end", "bad_request", "error"}}
ChunkEvents == {Event("chunk", c) : c \in ChunkSet}

\* the output of one generator step
OutNone == [kind |-> "none", item |-> NoResponse, exc |-> ""]
OutItem(r) == [kind |-> "item", item |-> r, exc |-> ""]
OutRaise(e) == [kind |-> "raise", item |-> NoResponse, exc |-> e]

NoGen ==
    [st |-> "none", message_text |-> "", chat_mode |-> "",
     dialog_messages |-> <<>>, dialog_messages_len_before |-> 0,
     response_message |-> NoneText,
     n_input_tokens |-> None, n_output_tokens |-> None,
     n_messages_removed |-> None,
     messages |-> <<>>,
     \* history: provider attempts made, chunks read, every attempt so far was
     \* answered with BadRequestError, the exception that ended the generator
     attempts |-> 0, chunks |-> 0, all_too_long |-> TRUE, exc |-> ""]

\* lines 102-116: compose the prompt and call the provider; the generator is
\* then suspended in create
GenAttempt(g) ==
    [g EXCEPT !.st = "create",
              !.messages = _compose_completion_messages(
                               g.message_text, g.dialog_messages, g.chat_mode),
              !.attempts = g.attempts + 1]

\* lines 152-158: the final yield.  n_messages_removed is assigned only in
\* the chunk loop: unbound when no chunk was read.
GenFinalYield(g) ==
    IF g.n_messages_removed = None
    THEN [g |-> [g EXCEPT !.st = "done", !.exc = "UnboundLocalError"],
          out |-> OutRaise("UnboundLocalError")]
    ELSE [g |-> [g EXCEPT !.st = "final"],
          out |-> OutItem(AssistantResponse(g.response_message,
                                            g.n_input_tokens, g.n_output_tokens,
                                            g.n_messages_removed, TRUE))]

\* line 100: while response_message is None
GenWhile(g) ==
    IF g.response_message = NoneText
    THEN [g |-> GenAttempt(g), out |-> OutNone]
    ELSE GenFinalYield(g)

\* the error is raised while one Turn is left
GenBadRequest_stops_early(g) ==
    IF Len(g.dialog_messages) <= 1
    THEN [g |-> [g EXCEPT !.st = "done", !.exc = "BadRequestError"],
          out |-> OutRaise("BadRequestError")]
    ELSE GenWhile([g EXCEPT !.dialog_messages = Tail(g.dialog_messages)])

\* lines 139-146: except openai.BadRequestError
GenBadRequest(g) ==
    IF Len(g.dialog_messages) = 0
    THEN [g |-> [g EXCEPT !.st = "done", !.exc = "BadRequestError"],
          out |-> OutRaise("BadRequestError")]
    ELSE GenWhile([g EXCEPT !.dialog_messages = Tail(g.dialog_messages)])

\* lines 88-108: the generator runs to its first await
GenStart(message_text, dialog_messages, chat_mode) ==
    GenAttempt([NoGen EXCEPT !.message_text = message_text,
                             !.chat_mode = chat_mode,
                             !.dialog_messages = dialog_messages,
                             !.dialog_messages_len_before = Len(dialog_messages)])

\* lines 110-118: chat.completions.create returns or raises
GenOnCreate(g, ev) ==
    CASE ev.kind = "ok" ->
           [g |-> [g EXCEPT !.response_message = <<>>, !.st = "stream",
                            !.all_too_long = FALSE],
            out |-> OutNone]
      [] ev.kind = "bad_request" -> GenBadRequest(g)
      [] ev.kind = "bad_request_other" ->
           GenBadRequest([g EXCEPT !.all_too_long = FALSE])
      [] OTHER ->
           [g |-> [g EXCEPT !.st = "done", !.all_too_long = FALSE,
                            !.exc = "APIError"],
            out |-> OutRaise("APIError")]

\* the partial answer carries the token counts read so far
GenPartialYield_with_counts(g) ==
    AssistantResponse(g.response_message, g.n_input_tokens, g.n_output_tokens,
                      g.n_messages_removed, FALSE)

\* lines 130-133: the yield of a partial answer
GenPartialYield(g) ==
    AssistantResponse(g.response_message, None, None, g.n_messages_removed, FALSE)

\* the count of removed Turns is the length of the history
GenOnChunk_counts_history(g, c) ==
    LET g1 == [g EXCEPT
                 !.n_messages_removed = g.dialog_messages_len_before,
                 !.response_message =
                     IF c.choices THEN g.response_message \o c.content
                     ELSE g.response_message,
                 !.n_input_tokens =
                     IF c.usage # NoUsage THEN c.usage[1] ELSE g.n_input_tokens,
                 !.n_output_tokens =
                     IF c.usage # NoUsage THEN c.usage[2] ELSE g.n_output_tokens,
                 !.chunks = g.chunks + 1]
    IN  [g |-> g1, out |-> OutItem(GenPartialYield(g1))]

\* lines 120-133: one chunk of the stream
GenOnChunk(g, c) ==
    LET g1 == [g EXCEPT
                 !.n_messages_removed =
                     g.dialog_messages_len_before - Len(g.dialog_messages),
                 !.response_message =
                     IF c.choices THEN g.response_message \o c.content
                     ELSE g.response_message,
                 !.n_input_tokens =
                     IF c.usage # NoUsage THEN c.usage[1] ELSE g.n_input_tokens,
                 !.n_output_tokens =
                     IF c.usage # NoUsage THEN c.usage[2] ELSE g.n_output_tokens,
                 !.chunks = g.chunks + 1]
    IN  [g |-> g1, out |-> OutItem(GenPartialYield(g1))]

\* lines 120-146: the stream gives a chunk, ends, or raises
GenOnStream(g, ev) ==
    CASE ev.kind = "chunk" -> GenOnChunk(g, ev.chunk)
      [] ev.kind = "end" ->
           GenWhile([g EXCEPT !.response_message = Strip(g.response_message)])
      [] ev.kind = "bad_request" -> GenBadRequest(g)
      [] ev.kind = "bad_request_other" ->
           GenBadRequest([g EXCEPT !.all_too_long = FALSE])
      [] OTHER -> [g |-> [g EXCEPT !.st = "done", !.exc = "APIError"],
                  out |-> OutRaise("APIError")]

\* the provider events possible in generator state g; the usage chunk is the
\* last chunk of a stream (stream_options include_usage)
ProviderEvents(g) ==
    IF g.st = "create" THEN CreateEvents
    ELSE IF g.n_input_tokens # None THEN {Event("end", UsageChunk)}
    ELSE StreamEvents \cup (IF g.chunks < MaxChunks THEN ChunkEvents ELSE {})

\* one step of _send_message on a provider event
GenStep(g, ev) == IF g.st = "create" THEN GenOnCreate(g, ev) ELSE GenOnStream(g, ev)

\* send_message, lines 73-75: what is passed on to the consumer
SendMessagePasses(response) == EnableMessageStreaming \/ response.is_finished

(***************************************************************************)
(* State                                                                   *)
(***************************************************************************)
VARIABLES
    users,            \* Firestore: user id -> user document
    dialogs,          \* Firestore: user id -> its dialog documents, in creation
                      \* order; a dialog id is the position in this sequence
    user_semaphores,  \* Bot.user_semaphores: None (no entry), 0 (locked), 1 (free)
    user_tasks,       \* Bot.user_tasks: the invocation whose task is stored, or NoProc
    proc,             \* the running handler invocations and their locals
    next_message_id,  \* the id Telegram gives to the next message the bot sends
    now,              \* the clock at its last reading, in seconds
    nops,             \* handler invocations started so far
    ncancels,         \* /cancel commands handled so far
    user_cache        \* Firestore.user_cache: user id -> cached user document,
                      \* NoUserDoc where the dict has no entry

vars == <<users, dialogs, user_semaphores, user_tasks, proc, next_message_id, now,
          nops, ncancels, user_cache>>

(***************************************************************************)
(* Time                                                                    *)
(***************************************************************************)
\* config.yml: new_dialog_timeout (seconds)
new_dialog_timeout == 600
MaxTicks == 1
TickSeconds == 12 * 3600
DaySeconds == 24 * 3600

\* datetime.now(): the clock does not go back; between two readings it has
\* stayed or advanced
Times == {t \in {now, now + TickSeconds} : t <= MaxTicks * TickSeconds}

\* timedelta.seconds of a non-negative timedelta: the days are a separate field
TimedeltaSeconds(delta) == delta % DaySeconds

(***************************************************************************)
(* Firestore (firestore.py).  D is the store: [users, dialogs].            *)
(***************************************************************************)
NoUserDoc ==
    [exists |-> FALSE, last_interaction |-> 0, current_dialog_id |-> None,
     current_chat_mode |-> DefaultChatMode, current_model |-> DefaultModel,
     n_used_tokens |-> [m \in OPENAI_SUPPORTED_MODELS |-> Absent],
     n_remaining_tokens |-> 0,
     n_generated_images |-> 0, n_remaining_generated_images |-> 0,
     n_transcribed_seconds |-> 0, n_remaining_transcribed_seconds |-> 0]

is_user_registered(D, u) == D.users[u].exists

register_new_user(D, u, t) ==
    [D EXCEPT !.users[u] =
        [exists |-> TRUE, last_interaction |-> t, current_dialog_id |-> None,
         current_chat_mode |-> DefaultChatMode, current_model |-> DefaultModel,
         n_used_tokens |-> [m \in OPENAI_SUPPORTED_MODELS |-> Absent],
         n_remaining_tokens |-> USER_N_REMAINING_TOKENS_INITIAL_VALUE,
         n_generated_images |-> 0,
         n_remaining_generated_images |->
             USER_N_REMAINING_GENERATED_IMAGES_INITIAL_VALUE,
         n_transcribed_seconds |-> 0,
         n_remaining_transcribed_seconds |->
             USER_N_REMAINING_TRANSCRIBED_SECONDS_INITIAL_VALUE]]

_set_user_attribute(D, u, key, value) ==
    [D EXCEPT !.users[u] = [D.users[u] EXCEPT ![key] = value]]

_get_user_attribute(D, u, key) == D.users[u][key]

get_current_dialog_id(D, u) == _get_user_attribute(D, u, "current_dialog_id")
get_current_chat_mode(D, u) == _get_user_attribute(D, u, "current_chat_mode")
get_current_model(D, u) == _get_user_attribute(D, u, "current_model")
get_last_interaction(D, u) == _get_user_attribute(D, u, "last_interaction")
get_n_remaining_tokens(D, u) == _get_user_attribute(D, u, "n_remaining_tokens")

set_last_interaction(D, u, t) == _set_user_attribute(D, u, "last_interaction", t)
set_n_remaining_tokens(D, u, n) == _set_user_attribute(D, u, "n_remaining_tokens", n)

\* the id of the dialog start_new_dialog creates next (uuid4: a fresh id)
NewDialogId(D, u) == Len(D.dialogs[u]) + 1

\* the new dialog gets the default chat mode
start_new_dialog_default_mode(D, u) ==
    LET dialog_dict == [chat_mode |-> DefaultChatMode,
                        model |-> get_current_model(D, u),
                        messages |-> <<>>]
        D1 == [D EXCEPT !.dialogs[u] = Append(D.dialogs[u], dialog_dict)]
    IN  _set_user_attribute(D1, u, "current_dialog_id", NewDialogId(D, u))

start_new_dialog(D, u) ==
    LET dialog_dict == [chat_mode |-> get_current_chat_mode(D, u),
                        model |-> get_current_model(D, u),
                        messages |-> <<>>]
        D1 == [D EXCEPT !.dialogs[u] = Append(D.dialogs[u], dialog_dict)]
    IN  _set_user_attribute(D1, u, "current_dialog_id", NewDialogId(D, u))

\* dialog_id = None: the current dialog
DialogIdOrCurrent(D, u, dialog_id) ==
    IF dialog_id = None THEN get_current_dialog_id(D, u) ELSE dialog_id

get_dialog_messages(D, u, dialog_id) ==
    D.dialogs[u][DialogIdOrCurrent(D, u, dialog_id)].messages

set_dialog_messages(D, u, messages, dialog_id) ==
    [D EXCEPT !.dialogs[u][DialogIdOrCurrent(D, u, dialog_id)].messages = messages]

\* get_dialog_id returns the first dialog, in the order of the collection's
\* get(), that holds a Turn with the message id, and the 0-based index of the
\* first such Turn in it.  Firestore lists the documents by their id, a
\* uuid4: the order is any order, so every dialog holding the id is a
\* possible result.  NoTarget is (None, None).
NoTarget == <<None, None>>

\* only the current dialog is searched
get_dialog_id_current_only(D, u, message_id) ==
    LET d == get_current_dialog_id(D, u)
        at == {i \in 0..(Len(D.dialogs[u][d].messages) - 1) :
                  D.dialogs[u][d].messages[i + 1].message_id = message_id}
    IN  IF at = {} THEN {NoTarget}
        ELSE {<<d, CHOOSE i \in at : \A j \in at : i <= j>>}

get_dialog_id(D, u, message_id) ==
    LET FirstAt(d, i) ==
            /\ D.dialogs[u][d].messages[i + 1].message_id = message_id
            /\ \A j \in 0..(i - 1) :
                   D.dialogs[u][d].messages[j + 1].message_id # message_id
        found == UNION {{<<d, i>> : i \in {k \in 0..(Len(D.dialogs[u][d].messages) - 1) :
                                              FirstAt(d, k)}} :
                        d \in 1..Len(D.dialogs[u])}
    IN  IF found = {} THEN {NoTarget} ELSE found

get_chat_mode(D, u, dialog_id) == D.dialogs[u][dialog_id].chat_mode

set_current_chat_mode(D, u, current_chat_mode) ==
    _set_user_attribute(D, u, "current_chat_mode", current_chat_mode)

\* the entry is overwritten with the new counts
set_n_used_tokens_overwrites(D, u, model, n_input_tokens, n_output_tokens) ==
    LET old == _get_user_attribute(D, u, "n_used_tokens")
    IN  _set_user_attribute(D, u, "n_used_tokens",
            [old EXCEPT ![model] = [n_input_tokens |-> n_input_tokens,
                                    n_output_tokens |-> n_output_tokens]])

set_n_used_tokens(D, u, model, n_input_tokens, n_output_tokens) ==
    LET old == _get_user_attribute(D, u, "n_used_tokens")
        entry == IF old[model] # Absent
                 THEN [n_input_tokens |-> old[model].n_input_tokens + n_input_tokens,
                       n_output_tokens |-> old[model].n_output_tokens + n_output_tokens]
                 ELSE [n_input_tokens |-> n_input_tokens,
                       n_output_tokens |-> n_output_tokens]
    IN  _set_user_attribute(D, u, "n_used_tokens", [old EXCEPT ![model] = entry])

Store == [users |-> users, dialogs |-> dialogs]

(***************************************************************************)
(* Bot (bot.py).  B is the bot's state outside the invocations:            *)
(* [D, sems, tasks].                                                       *)
(***************************************************************************)
BotState == [D |-> Store, sems |-> user_semaphores, tasks |-> user_tasks]

SetBotState(B) ==
    /\ users' = B.D.users
    /\ dialogs' = B.D.dialogs
    /\ user_semaphores' = B.sems
    /\ user_tasks' = B.tasks

\* the locals of a handler invocation; the fields after gen are history
\* variables that no handler reads
IdleProc ==
    [kind |-> "none", user |-> "", pc |-> "idle",
     result |-> "none", cancel_requested |-> FALSE,
     message_text |-> "", use_new_dialog_timeout |-> TRUE,
     chat_mode |-> "", current_n_remaining_tokens |-> 0,
     current_n_remaining_generated_images |-> 0,
     current_n_remaining_transcribed_seconds |-> 0,
     current_model |-> "", n_input_tokens |-> 0, n_output_tokens |-> 0,
     placeholder_id |-> None, status |-> "", answer |-> <<>>,
     previous_answer |-> <<>>, n_first_dialog_messages_removed |-> 0,
     gen |-> NoGen,
     started_locked |-> FALSE, handler_started |-> FALSE,
     raised_in_fn |-> FALSE, cancel_pos |-> "", outcome |-> "none",
     escaped |-> FALSE,
     handler_result |-> "none", got_final |-> FALSE, got_counts |-> FALSE,
     used_at_start |-> Absent, n_items |-> 0,
     \* the result of switch_context_if_needed and the result of get_dialog_id
     \* in it
     context_switch |-> "", target |-> NoTarget,
     \* the lengths of the texts the relay loop has taken from the stream, and
     \* of those it has handed to edit_message_text
     seen |-> <<>>, pushed |-> <<>>]

\* the handler has ended: its locals are gone, the history variables stay
\* until the slot is used again
Done(rec, outcome, escaped) ==
    [IdleProc EXCEPT !.kind = rec.kind, !.user = rec.user, !.pc = "done",
                     !.outcome = outcome, !.escaped = escaped,
                     !.started_locked = rec.started_locked,
                     !.handler_started = rec.handler_started]

\* update_last_interaction
update_last_interaction(B, u, t) == [B EXCEPT !.D = set_last_interaction(B.D, u, t)]

\* register_user_if_not_registered, lines 98-111
register_user_if_not_registered(B, u, t) ==
    LET D1 == IF is_user_registered(B.D, u) THEN B.D
              ELSE start_new_dialog(register_new_user(B.D, u, t), u)
    IN  [B EXCEPT !.D = D1,
                  !.sems[u] = IF B.sems[u] = None THEN 1 ELSE B.sems[u]]

\* asyncio.Semaphore.locked()
Locked(sems, u) == sems[u] = 0

\* the busy check left out
is_previous_message_not_answered_yet_never(B, u) == FALSE

\* one slot for all users
is_previous_message_not_answered_yet_any_user(B, u) ==
    \E x \in Users : Locked(B.sems, x)

\* is_previous_message_not_answered_yet, lines 667-676
is_previous_message_not_answered_yet(B, u) == Locked(B.sems, u)

\* the message an inbound message replies to: none, a message of the bot
\* ("bot"), of another user ("user"), or one without a sender ("anonymous")
NoReply == [kind |-> "none", message_id |-> None]
ReplyTo(kind, message_id) == [kind |-> kind, message_id |-> message_id]

\* the new dialog takes the Turns after the one replied to
fork_dialog_takes_rest(D, u, target) ==
    LET target_dialog_messages == get_dialog_messages(D, u, target[1])
        D3 == start_new_dialog(
                  set_current_chat_mode(D, u, get_chat_mode(D, u, target[1])), u)
    IN  set_dialog_messages(D3, u,
            SubSeq(target_dialog_messages, target[2] + 2, Len(target_dialog_messages)),
            get_current_dialog_id(D3, u))

\* the new dialog is started before the chat mode of the target is set
fork_dialog_mode_after(D, u, target) ==
    LET target_dialog_messages == get_dialog_messages(D, u, target[1])
        D2 == start_new_dialog(D, u)
        D3 == set_current_chat_mode(D2, u, get_chat_mode(D2, u, target[1]))
    IN  set_dialog_messages(D3, u,
            SubSeq(target_dialog_messages, 1, target[2] + 1),
            get_current_dialog_id(D3, u))

\* switch_context_if_needed, lines 634-641: the Turns of the target dialog up
\* to the one replied to become a new current dialog
fork_dialog(D, u, target) ==
    LET target_dialog_messages == get_dialog_messages(D, u, target[1])
        target_chat_mode == get_chat_mode(D, u, target[1])
        D2 == set_current_chat_mode(D, u, target_chat_mode)
        D3 == start_new_dialog(D2, u)
        new_dialog_id == get_current_dialog_id(D3, u)
        new_dialog_messages == SubSeq(target_dialog_messages, 1, target[2] + 1)
    IN  set_dialog_messages(D3, u, new_dialog_messages, new_dialog_id)

\* has_replied_to_current_dialog and has_replied_to_last_message_from_dialog,
\* lines 627-632
RepliedToLast(D, u, target) ==
    /\ target[1] = get_current_dialog_id(D, u)
    /\ target[2] = Len(get_dialog_messages(D, u, target[1])) - 1

\* a message id that is not found starts an empty dialog
switch_context_if_needed_starts_dialog(D, u, reply, target, t) ==
    CASE reply.kind = "none" -> [D |-> D, result |-> "NOT_NEEDED"]
      [] reply.kind = "anonymous" -> [D |-> D, result |-> "CANT_SWITCH"]
      [] reply.kind = "user" -> [D |-> D, result |-> "NOT_NEEDED"]
      [] OTHER ->
           IF target = NoTarget
           THEN [D |-> start_new_dialog(D, u), result |-> "CANT_SWITCH"]
           ELSE IF RepliedToLast(D, u, target)
           THEN [D |-> set_last_interaction(D, u, t), result |-> "NOT_NEEDED"]
           ELSE [D |-> fork_dialog(set_last_interaction(D, u, t), u, target),
                 result |-> "SWITCHED"]

\* the sender of the message replied to is not looked at
switch_context_if_needed_any_sender(D, u, reply, target, t) ==
    CASE reply.kind = "none" -> [D |-> D, result |-> "NOT_NEEDED"]
      [] reply.kind = "anonymous" -> [D |-> D, result |-> "CANT_SWITCH"]
      [] OTHER ->
           IF target = NoTarget
           THEN [D |-> D, result |-> "CANT_SWITCH"]
           ELSE IF RepliedToLast(D, u, target)
           THEN [D |-> set_last_interaction(D, u, t), result |-> "NOT_NEEDED"]
           ELSE [D |-> fork_dialog(set_last_interaction(D, u, t), u, target),
                 result |-> "SWITCHED"]

\* the last interaction is not refreshed
switch_context_if_needed_no_refresh(D, u, reply, target, t) ==
    CASE reply.kind = "none" -> [D |-> D, result |-> "NOT_NEEDED"]
      [] reply.kind = "anonymous" -> [D |-> D, result |-> "CANT_SWITCH"]
      [] reply.kind = "user" -> [D |-> D, result |-> "NOT_NEEDED"]
      [] OTHER ->
           IF target = NoTarget
           THEN [D |-> D, result |-> "CANT_SWITCH"]
           ELSE IF RepliedToLast(D, u, target)
           THEN [D |-> D, result |-> "NOT_NEEDED"]
           ELSE [D |-> fork_dialog(D, u, target), result |-> "SWITCHED"]

\* switch_context_if_needed, lines 590-641; target is the result of
\* get_dialog_id (line 609)
switch_context_if_needed(D, u, reply, target, t) ==
    CASE reply.kind = "none" -> [D |-> D, result |-> "NOT_NEEDED"]
      [] reply.kind = "anonymous" -> [D |-> D, result |-> "CANT_SWITCH"]
      [] reply.kind = "user" -> [D |-> D, result |-> "NOT_NEEDED"]
      [] OTHER ->
           IF target = NoTarget
           THEN [D |-> D, result |-> "CANT_SWITCH"]
           ELSE IF RepliedToLast(D, u, target)
           THEN [D |-> set_last_interaction(D, u, t), result |-> "NOT_NEEDED"]
           ELSE [D |-> fork_dialog(set_last_interaction(D, u, t), u, target),
                 result |-> "SWITCHED"]

\* message_handle, lines 403-427 and 574-576, run on the bot state B by
\* invocation p; rec holds p's locals so far.  The result is the new bot state
\* and p's locals at its first suspension.  reply is the message replied to
\* and target the result of get_dialog_id for it.
message_handle(B, p, rec, u, message, reply, target, use_new_dialog_timeout, t) ==
    LET B1 == register_user_if_not_registered(B, u, t)
        r1 == [rec EXCEPT !.user = u, !.message_text = message,
                          !.use_new_dialog_timeout = use_new_dialog_timeout]
        sw == switch_context_if_needed(B1.D, u, reply, target, t)
        B2 == [B1 EXCEPT !.D = sw.D]
        r2 == [r1 EXCEPT !.context_switch = sw.result, !.target = target]
        chat_mode == get_current_chat_mode(B2.D, u)
        current_n_remaining_tokens == get_n_remaining_tokens(B2.D, u)
    IN  IF is_previous_message_not_answered_yet(B1, u)
        THEN [B |-> B1, rec |-> Done(r1, "busy", FALSE)]
        ELSE IF sw.result = "CANT_SWITCH"
        THEN [B |-> B2,
              rec |-> Done(r1, IF reply.kind = "anonymous" THEN "cant_switch_silent"
                               ELSE "cant_switch", FALSE)]
        ELSE IF current_n_remaining_tokens <= 0
        THEN [B |-> B2, rec |-> Done(r1, "no_tokens", FALSE)]
        ELSE [B |-> [B2 EXCEPT !.sems[u] = 0, !.tasks[u] = p],
              rec |-> [r2 EXCEPT !.pc = "task_created",
                                 !.chat_mode = chat_mode,
                                 !.current_n_remaining_tokens =
                                     current_n_remaining_tokens]]

\* the texts of the inbound messages
MessageTexts == {"hello", ""}

\* a new invocation takes the first slot that is not in use
Free(p) ==
    /\ proc[p].pc \in {"idle", "done"}
    /\ \A q \in Procs : q < p => proc[q].pc \notin {"idle", "done"}


\* the positions of an invocation between taking the slot of its user and
\* releasing it
Holding == {"task_created", "await_timeout_reply", "await_placeholder",
            "await_empty_reply", "gen", "await_edit", "await_edit_fallback",
            "await_error_reply", "await_toolong_reply", "help_running",
            "task_done", "await_cancel_reply"}

\* history: an invocation of user u is between taking and releasing u's slot
SlotHeld(u) == \E q \in Procs : proc[q].user = u /\ proc[q].pc \in Holding

(***************************************************************************)
(* Handlers: entry                                                         *)
(***************************************************************************)
\* a text message arrives: message_handle up to "await task"
MessageHandle(p, u, text, t) ==
    /\ Free(p) /\ nops < MaxOps
    /\ LET r == message_handle(BotState, p, [IdleProc EXCEPT !.kind = "message",
                                                !.started_locked = SlotHeld(u)],
                               u, text, NoReply, NoTarget, TRUE, t)
       IN  /\ SetBotState(r.B)
           /\ proc' = [proc EXCEPT ![p] = r.rec]
    /\ nops' = nops + 1 /\ now' = t
    /\ UNCHANGED <<next_message_id, ncancels, user_cache>>

\* cancel_handle without the reply of its else branch
cancel_handle_silent(B, u, t) ==
    LET B1 == update_last_interaction(register_user_if_not_registered(B, u, t), u, t)
    IN  [B |-> B1, task |-> B1.tasks[u], reply |-> ""]

\* cancel_handle, lines 816-832: the bot state after the call, the task it
\* cancels (NoProc: none) and the text it replies with ("": no reply)
cancel_handle(B, u, t) ==
    LET B1 == update_last_interaction(register_user_if_not_registered(B, u, t), u, t)
    IN  [B |-> B1, task |-> B1.tasks[u],
         reply |-> IF B1.tasks[u] # NoProc THEN "" ELSE "nothing_to_cancel"]

\* /cancel arrives; task.cancel() has an effect only on a task that is not
\* done
CancelHandle(u, t) ==
    /\ ncancels < MaxCancels
    /\ LET r == cancel_handle(BotState, u, t)
       IN  /\ SetBotState(r.B)
           /\ proc' = IF r.task # NoProc /\ proc[r.task].result = "none"
                      THEN [proc EXCEPT ![r.task].cancel_requested = TRUE]
                      ELSE proc
    /\ ncancels' = ncancels + 1 /\ now' = t
    /\ UNCHANGED user_cache
    /\ UNCHANGED <<next_message_id, nops>>

(***************************************************************************)
(* message_handle_fn, lines 429-572: the task of a message invocation      *)
(***************************************************************************)
Running(p) == ~proc[p].cancel_requested

\* the invocations that reach message_handle: a text message, /retry, a voice
\* message
IsMessageTask(rec) == rec.kind \in {"message", "retry", "voice"}

\* the task ends: returned, cancelled or raised; message_handle is resumed later
EndTask(rec, result) ==
    [rec EXCEPT !.pc = "task_done", !.result = result, !.gen = NoGen,
                !.answer = <<>>, !.previous_answer = <<>>, !.status = "",
                !.message_text = "", !.n_first_dialog_messages_removed = 0,
                !.seen = <<>>, !.pushed = <<>>,
                !.context_switch = "", !.target = NoTarget]

\* an exception other than CancelledError is raised outside the try block and
\* leaves the task
RaiseOutsideTry(rec) == [EndTask(rec, "raised") EXCEPT !.raised_in_fn = TRUE]

\* lines 552-558: except Exception, up to the await of the error reply
ExceptException(rec) ==
    [rec EXCEPT !.pc = "await_error_reply", !.raised_in_fn = TRUE]

\* lines 447-455: from update_last_interaction to the await of the placeholder
AfterTimeoutCheck(D, rec, t) ==
    LET u == rec.user
        D1 == set_last_interaction(D, u, t)
        current_model == get_current_model(D1, u)
    IN  [D |-> D1,
         rec |-> [rec EXCEPT !.pc = "await_placeholder",
                             !.n_input_tokens = 0, !.n_output_tokens = 0,
                             !.current_model = current_model,
                             !.used_at_start =
                                 _get_user_attribute(D1, u, "n_used_tokens")[current_model]]]

\* lines 434-438: the new-dialog-timeout condition
TimedOut(D, u, t) ==
    LET last_interaction == get_last_interaction(D, u)
        has_dialog_messages == Len(get_dialog_messages(D, u, None)) > 0
        seconds_since_last_interaction == TimedeltaSeconds(t - last_interaction)
    IN  seconds_since_last_interaction > new_dialog_timeout /\ has_dialog_messages

\* the task starts: lines 430-455 up to the first await
TaskStart(p, t) ==
    /\ proc[p].pc = "task_created" /\ IsMessageTask(proc[p]) /\ Running(p)
    /\ LET rec == [proc[p] EXCEPT !.handler_started = TRUE]
           u == rec.user
       IN  IF rec.use_new_dialog_timeout /\ TimedOut(Store, u, t)
           THEN LET D1 == start_new_dialog(Store, u)
                IN  /\ users' = D1.users /\ dialogs' = D1.dialogs
                    /\ proc' = [proc EXCEPT ![p] =
                                   [rec EXCEPT !.pc = "await_timeout_reply"]]
           ELSE LET r == AfterTimeoutCheck(Store, rec, t)
                IN  /\ users' = r.D.users /\ dialogs' = r.D.dialogs
                    /\ proc' = [proc EXCEPT ![p] = r.rec]
    /\ now' = t
    /\ UNCHANGED <<user_semaphores, user_tasks, next_message_id, nops, ncancels, user_cache>>

\* line 445: the reply "starting new dialog due to timeout" returns or raises
TimeoutReplied(p, ok, t) ==
    /\ proc[p].pc = "await_timeout_reply" /\ Running(p)
    /\ IF ok
       THEN LET r == AfterTimeoutCheck(Store, proc[p], t)
            IN  /\ users' = r.D.users /\ dialogs' = r.D.dialogs
                /\ proc' = [proc EXCEPT ![p] = r.rec]
                /\ now' = t
       ELSE /\ proc' = [proc EXCEPT ![p] = RaiseOutsideTry(proc[p])]
            /\ UNCHANGED <<users, dialogs, now>>
    /\ UNCHANGED <<user_semaphores, user_tasks, next_message_id, nops, ncancels, user_cache>>

\* lines 455-484: the placeholder reply and the typing action return or raise;
\* then the history is read and the generator is started
PlaceholderReplied(p, ok) ==
    /\ proc[p].pc = "await_placeholder" /\ Running(p)
    /\ IF ok
       THEN /\ next_message_id' = next_message_id + 1
            /\ LET rec == [proc[p] EXCEPT !.placeholder_id = next_message_id]
                   dialog_messages == get_dialog_messages(Store, rec.user, None)
               IN  proc' = [proc EXCEPT ![p] =
                      IF rec.message_text = ""
                      THEN [rec EXCEPT !.pc = "await_empty_reply"]
                      ELSE [rec EXCEPT !.pc = "gen",
                                       !.answer = <<>>,
                                       !.n_first_dialog_messages_removed = 0,
                                       !.previous_answer = <<>>,
                                       !.gen = GenStart(rec.message_text,
                                                        dialog_messages,
                                                        rec.chat_mode)]]
       ELSE /\ proc' = [proc EXCEPT ![p] = ExceptException(proc[p])]
            /\ UNCHANGED next_message_id
    /\ UNCHANGED <<users, dialogs, user_semaphores, user_tasks, now, nops, ncancels, user_cache>>

\* lines 462-465: the reply "empty message" returns (the handler returns inside
\* the try block) or raises
EmptyReplied(p, ok) ==
    /\ proc[p].pc = "await_empty_reply" /\ Running(p)
    /\ proc' = [proc EXCEPT ![p] =
                  IF ok THEN [EndTask(proc[p], "returned") EXCEPT !.handler_result = "empty"]
                  ELSE ExceptException(proc[p])]
    /\ UNCHANGED <<users, dialogs, user_semaphores, user_tasks, next_message_id,
                   now, nops, ncancels, user_cache>>

\* ChatGPT.send_message_stream is not part of the sources: an element of the
\* stream as the relay loop unpacks it (line 501).  Counts that are not
\* present are zero.
OrZero(n) == IF n = None THEN 0 ELSE n

send_message_stream(response) ==
    [status |-> IF response.is_finished THEN "finished" ELSE "not_finished",
     answer |-> response.message,
     n_input_tokens |-> OrZero(response.n_input_tokens),
     n_output_tokens |-> OrZero(response.n_output_tokens),
     n_first_dialog_messages_removed |-> response.n_messages_removed]

\* the element is skipped while fewer than 50 new characters are ready
SkipEdit_half_threshold(answer, previous_answer, status) ==
    Abs(Len(answer) - Len(previous_answer)) < 50 /\ status # "finished"

\* every partial answer is skipped
SkipEdit_until_finished(answer, previous_answer, status) == status # "finished"

\* line 506: the element is not pushed to the message-edit sink
SkipEdit(answer, previous_answer, status) ==
    Abs(Len(answer) - Len(previous_answer)) < EDIT_THRESHOLD /\ status # "finished"

\* lines 501-510: the relay loop takes an element up to the await of the edit
RelayItem(rec, response) ==
    LET item == send_message_stream(response)
        answer == Truncate(item.answer, MESSAGE_LENGTH_LIMIT)
        r1 == [rec EXCEPT !.status = item.status,
                          !.answer = answer,
                          !.n_input_tokens = item.n_input_tokens,
                          !.n_output_tokens = item.n_output_tokens,
                          !.n_first_dialog_messages_removed =
                              item.n_first_dialog_messages_removed,
                          !.n_items = 1,
                          !.seen = Append(rec.seen, Len(answer)),
                          !.got_final = rec.got_final \/ response.is_finished,
                          !.got_counts = rec.got_counts
                                         \/ response.n_input_tokens # None
                                         \/ response.n_output_tokens # None]
    IN  IF SkipEdit(answer, rec.previous_answer, item.status)
        THEN r1
        ELSE [r1 EXCEPT !.pc = "await_edit",
                        !.pushed = Append(rec.pushed, Len(answer))]

\* the Turns left in the prompt are stored with the new Turn
Commit_stores_prompt_history(D, rec) ==
    LET u == rec.user
        new_dialog_message == Turn(rec.message_text, rec.answer, rec.placeholder_id)
        D1 == set_dialog_messages(D, u,
                  Append(rec.gen.dialog_messages, new_dialog_message), None)
        D2 == set_n_used_tokens(D1, u, rec.current_model,
                                rec.n_input_tokens, rec.n_output_tokens)
    IN  set_n_remaining_tokens(D2, u,
            rec.current_n_remaining_tokens - (rec.n_input_tokens + rec.n_output_tokens))

\* the new Turn is stored before the Turns of the history
Commit_prepends(D, rec) ==
    LET u == rec.user
        new_dialog_message == Turn(rec.message_text, rec.answer, rec.placeholder_id)
        D1 == set_dialog_messages(D, u,
                  <<new_dialog_message>> \o get_dialog_messages(D, u, None), None)
        D2 == set_n_used_tokens(D1, u, rec.current_model,
                                rec.n_input_tokens, rec.n_output_tokens)
    IN  set_n_remaining_tokens(D2, u,
            rec.current_n_remaining_tokens - (rec.n_input_tokens + rec.n_output_tokens))

\* the new Turn replaces the stored history
Commit_replaces_history(D, rec) ==
    LET u == rec.user
        new_dialog_message == Turn(rec.message_text, rec.answer, rec.placeholder_id)
        D1 == set_dialog_messages(D, u, <<new_dialog_message>>, None)
        D2 == set_n_used_tokens(D1, u, rec.current_model,
                                rec.n_input_tokens, rec.n_output_tokens)
    IN  set_n_remaining_tokens(D2, u,
            rec.current_n_remaining_tokens - (rec.n_input_tokens + rec.n_output_tokens))

\* lines 530-545: the Turn and the usage are stored
Commit(D, rec) ==
    LET u == rec.user
        new_dialog_message == Turn(rec.message_text, rec.answer, rec.placeholder_id)
        current_dialog_messages == get_dialog_messages(D, u, None)
        D1 == set_dialog_messages(D, u,
                  Append(current_dialog_messages, new_dialog_message), None)
        D2 == set_n_used_tokens(D1, u, rec.current_model,
                                rec.n_input_tokens, rec.n_output_tokens)
        new_n_remaining_tokens ==
            rec.current_n_remaining_tokens - (rec.n_input_tokens + rec.n_output_tokens)
    IN  set_n_remaining_tokens(D2, u, new_n_remaining_tokens)

\* lines 561-572: after the try block
AfterTry(rec) ==
    IF rec.n_first_dialog_messages_removed > 0
    THEN [rec EXCEPT !.pc = "await_toolong_reply", !.gen = NoGen]
    ELSE [EndTask(rec, "returned") EXCEPT !.handler_result = "ok"]

\* the loop asks for the next element: after the final one the generator
\* ends and the loop is left
NextItem(D, rec) ==
    IF rec.status = "finished"
    THEN [D |-> Commit(D, rec), rec |-> AfterTry(rec)]
    ELSE [D |-> D, rec |-> [rec EXCEPT !.pc = "gen"]]

\* the provider answers the generator of p: lines 100-158 of openai_utils.py
\* and the relay loop up to its next await
ProviderStep(p, ev) ==
    /\ proc[p].pc = "gen" /\ Running(p)
    /\ LET r == GenStep(proc[p].gen, ev)
           rec == [proc[p] EXCEPT !.gen = r.g]
       IN  proc' = [proc EXCEPT ![p] =
              CASE r.out.kind = "none" -> rec
                [] r.out.kind = "raise" -> ExceptException(rec)
                [] OTHER -> IF SendMessagePasses(r.out.item)
                            THEN RelayItem(rec, r.out.item)
                            ELSE rec]
    /\ UNCHANGED <<users, dialogs, user_semaphores, user_tasks, next_message_id,
                   now, nops, ncancels, user_cache>>

ProviderEvent(p, ev) == ev \in ProviderEvents(proc[p].gen) /\ ProviderStep(p, ev)

\* lines 509-528: edit_message_text returns, or raises BadRequest "Message is
\* not modified", another BadRequest, or another error
EditResults == {"ok", "not_modified", "bad_request", "error"}

EditDone(p, res) ==
    /\ proc[p].pc = "await_edit" /\ Running(p)
    /\ LET rec == proc[p]
           r == CASE res = "ok" ->
                       NextItem(Store, [rec EXCEPT !.previous_answer = rec.answer])
                  [] res = "not_modified" -> NextItem(Store, rec)
                  [] res = "bad_request" ->
                       [D |-> Store, rec |-> [rec EXCEPT !.pc = "await_edit_fallback"]]
                  [] OTHER -> [D |-> Store, rec |-> ExceptException(rec)]
       IN  /\ users' = r.D.users /\ dialogs' = r.D.dialogs
           /\ proc' = [proc EXCEPT ![p] = r.rec]
    /\ UNCHANGED <<user_semaphores, user_tasks, next_message_id, now, nops, ncancels, user_cache>>

\* lines 520-528: the edit without parse mode returns or raises
EditFallbackDone(p, ok) ==
    /\ proc[p].pc = "await_edit_fallback" /\ Running(p)
    /\ LET rec == proc[p]
           r == IF ok
                THEN NextItem(Store, [rec EXCEPT !.previous_answer = rec.answer])
                ELSE [D |-> Store, rec |-> ExceptException(rec)]
       IN  /\ users' = r.D.users /\ dialogs' = r.D.dialogs
           /\ proc' = [proc EXCEPT ![p] = r.rec]
    /\ UNCHANGED <<user_semaphores, user_tasks, next_message_id, now, nops, ncancels, user_cache>>

\* line 572: the reply "dialog is too long" returns or raises
TooLongReplied(p, ok) ==
    /\ proc[p].pc = "await_toolong_reply" /\ Running(p)
    /\ proc' = [proc EXCEPT ![p] =
                  IF ok THEN [EndTask(proc[p], "returned") EXCEPT !.handler_result = "ok"]
                  ELSE RaiseOutsideTry(proc[p])]
    /\ UNCHANGED <<users, dialogs, user_semaphores, user_tasks, next_message_id,
                   now, nops, ncancels, user_cache>>

\* lines 558-559: the reply "completion error" returns or raises
ErrorReplied(p, ok) ==
    /\ proc[p].pc = "await_error_reply" /\ Running(p)
    /\ proc' = [proc EXCEPT ![p] =
                  IF ok
                  THEN [EndTask(proc[p], "returned") EXCEPT
                            !.handler_result = "completion_error"]
                  ELSE EndTask(proc[p], "raised")]
    /\ UNCHANGED <<users, dialogs, user_semaphores, user_tasks, next_message_id,
                   now, nops, ncancels, user_cache>>

(***************************************************************************)
(* Cancellation and the end of a dispatch                                  *)
(***************************************************************************)
\* the awaits of message_handle_fn inside its try block (lines 453-545)
InTry == {"await_placeholder", "await_empty_reply", "gen", "await_edit",
          "await_edit_fallback"}
\* a task waiting for the provider is not reached by a CancelledError
TaskAwaits_without_gen ==
    {"await_placeholder", "await_empty_reply", "await_edit", "await_edit_fallback",
     "task_created", "await_timeout_reply", "await_error_reply",
     "await_toolong_reply", "help_running"}

\* the awaits of a task where a CancelledError can be thrown into it
TaskAwaits == InTry \cup {"task_created", "await_timeout_reply",
                          "await_error_reply", "await_toolong_reply",
                          "help_running"}

\* the Turn is stored on cancellation
ExceptCancelled_stores_turn(D, rec) == Commit(D, rec)

\* the usage is not stored on cancellation
ExceptCancelled_skips_usage(D, rec) == D

\* lines 547-550: except asyncio.CancelledError of message_handle_fn
ExceptCancelled(D, rec) ==
    set_n_used_tokens(D, rec.user, rec.current_model,
                      rec.n_input_tokens, rec.n_output_tokens)

\* the CancelledError requested by task.cancel() is thrown into the task at
\* the await it is suspended in
DeliverCancel(p) ==
    /\ proc[p].cancel_requested /\ proc[p].pc \in TaskAwaits
    /\ LET rec == proc[p]
           D1 == IF IsMessageTask(rec) /\ rec.pc \in InTry
                 THEN ExceptCancelled(Store, rec)
                 ELSE Store
       IN  /\ users' = D1.users /\ dialogs' = D1.dialogs
           /\ proc' = [proc EXCEPT ![p] =
                          [EndTask(rec, "cancelled") EXCEPT
                               !.cancel_requested = FALSE,
                               !.cancel_pos = rec.pc]]
    /\ UNCHANGED <<user_semaphores, user_tasks, next_message_id, now, nops, ncancels, user_cache>>

\* the handle is deleted, the semaphore is not released
ReleaseSlot_keeps_semaphore(B, u) == [B EXCEPT !.tasks[u] = NoProc]

\* lines 586-588 and the exit of "async with": the handle is deleted and the
\* semaphore released
ReleaseSlot(B, u) ==
    [B EXCEPT !.tasks[u] = NoProc, !.sems[u] = B.sems[u] + 1]

\* "await task" returns or raises in message_handle (lines 578-588) or in
\* help_handle (lines 192-198)
Resume(p) ==
    /\ proc[p].pc = "task_done"
    /\ LET rec == proc[p]
           u == rec.user
       IN  IF IsMessageTask(rec) /\ rec.result = "cancelled"
           THEN /\ proc' = [proc EXCEPT ![p] =
                               [rec EXCEPT !.pc = "await_cancel_reply",
                                           !.outcome = "cancelled"]]
                /\ UNCHANGED <<users, dialogs, user_semaphores, user_tasks>>
           ELSE /\ SetBotState(ReleaseSlot(BotState, u))
                /\ proc' = [proc EXCEPT ![p] =
                      Done(rec,
                           IF rec.kind = "help" /\ rec.result = "raised"
                           THEN "returned" ELSE rec.result,
                           IF rec.kind = "help" THEN rec.result = "cancelled"
                           ELSE rec.result = "raised")]
    /\ UNCHANGED <<next_message_id, now, nops, ncancels, user_cache>>

\* lines 581-588: the reply "cancelled" returns or raises
CancelReplied(p, ok) ==
    /\ proc[p].pc = "await_cancel_reply"
    /\ SetBotState(ReleaseSlot(BotState, proc[p].user))
    /\ proc' = [proc EXCEPT ![p] = Done(proc[p], "cancelled", ~ok)]
    /\ UNCHANGED <<next_message_id, now, nops, ncancels, user_cache>>

(***************************************************************************)
(* /help, lines 157-198                                                    *)
(***************************************************************************)
HelpHandle(p, u, t) ==
    /\ Free(p) /\ nops < MaxOps
    /\ LET B1 == register_user_if_not_registered(BotState, u, t)
       IN  /\ SetBotState(B1)
           /\ proc' = [proc EXCEPT ![p] =
                          [IdleProc EXCEPT !.kind = "help", !.user = u,
                                           !.pc = "help_reply",
                                           !.started_locked = SlotHeld(u)]]
    /\ nops' = nops + 1 /\ now' = t
    /\ UNCHANGED <<next_message_id, ncancels, user_cache>>

\* the handle is stored before the semaphore is taken
help_acquire_stores_first(B, p, rec) ==
    IF Locked(B.sems, rec.user)
    THEN [B |-> [B EXCEPT !.tasks[rec.user] = p],
          rec |-> [rec EXCEPT !.pc = "help_wait"]]
    ELSE [B |-> [B EXCEPT !.sems[rec.user] = 0, !.tasks[rec.user] = p],
          rec |-> [rec EXCEPT !.pc = "task_created"]]

\* line 188: "async with self.user_semaphores[user_id]" with no locked() check:
\* the semaphore is acquired when free, and awaited otherwise
help_acquire(B, p, rec) ==
    IF Locked(B.sems, rec.user)
    THEN [B |-> B, rec |-> [rec EXCEPT !.pc = "help_wait"]]
    ELSE [B |-> [B EXCEPT !.sems[rec.user] = 0, !.tasks[rec.user] = p],
          rec |-> [rec EXCEPT !.pc = "task_created"]]

\* line 176: the first reply returns or raises
HelpReplied(p, ok) ==
    /\ proc[p].pc = "help_reply"
    /\ LET r == IF ok THEN help_acquire(BotState, p, proc[p])
                ELSE [B |-> BotState,
                      rec |-> Done(proc[p], "raised", TRUE)]
       IN  /\ SetBotState(r.B)
           /\ proc' = [proc EXCEPT ![p] = r.rec]
    /\ UNCHANGED <<next_message_id, now, nops, ncancels, user_cache>>

\* the semaphore was released: the waiting acquire goes on
HelpWake(p) ==
    /\ proc[p].pc = "help_wait" /\ ~Locked(user_semaphores, proc[p].user)
    /\ LET r == help_acquire(BotState, p, proc[p])
       IN  /\ SetBotState(r.B)
           /\ proc' = [proc EXCEPT ![p] = r.rec]
    /\ UNCHANGED <<next_message_id, now, nops, ncancels, user_cache>>

\* complete_by_chunks, lines 178-186: the task suspends in an edit or a sleep,
\* returns, or an edit raises
HelpTaskStep(p, res) ==
    /\ proc[p].kind = "help" /\ Running(p)
    /\ \/ proc[p].pc = "task_created" /\ res \in {"suspend", "return"}
       \/ proc[p].pc = "help_running" /\ res \in {"return", "raise"}
    /\ proc' = [proc EXCEPT ![p] =
          CASE res = "suspend" ->
                 [proc[p] EXCEPT !.pc = "help_running", !.handler_started = TRUE]
            [] res = "return" ->
                 [EndTask(proc[p], "returned") EXCEPT !.handler_started = TRUE]
            [] OTHER -> EndTask(proc[p], "raised")]
    /\ UNCHANGED <<users, dialogs, user_semaphores, user_tasks, next_message_id,
                   now, nops, ncancels, user_cache>>

(***************************************************************************)
(* /retry, lines 218-246                                                   *)
(***************************************************************************)
\* the last Turn is left in the list
PopLast_keeps(dialog_messages) == dialog_messages

\* line 239: dialog_messages.pop() on a list that is not empty
PopLast(dialog_messages) == SubSeq(dialog_messages, 1, Len(dialog_messages) - 1)

\* retry_handle, lines 218-246, for a /retry that may be a reply: the last
\* Turn is removed and its user text is handled as a message without the
\* timeout check; get_dialog_id is called after the Turn is removed
RetryHandleReply(p, u, reply, t) ==
    /\ Free(p) /\ nops < MaxOps
    /\ LET B1 == register_user_if_not_registered(BotState, u, t)
           rec == [IdleProc EXCEPT !.kind = "retry", !.user = u,
                                   !.started_locked = SlotHeld(u)]
           B2 == update_last_interaction(B1, u, t)
           dialog_messages == get_dialog_messages(B2.D, u, None)
           n == Len(dialog_messages)
           B3 == [B2 EXCEPT !.D = set_dialog_messages(B2.D, u,
                                                      PopLast(dialog_messages), None)]
       IN  \E target \in (IF reply.kind = "bot" /\ n > 0
                           THEN get_dialog_id(B3.D, u, reply.message_id)
                           ELSE {NoTarget}) :
               LET r == IF is_previous_message_not_answered_yet(B1, u)
                        THEN [B |-> B1,
                              rec |-> Done(rec, "busy", FALSE)]
                        ELSE IF n = 0
                        THEN [B |-> B2,
                              rec |-> Done(rec, "no_message_to_retry", FALSE)]
                        ELSE message_handle(B3, p, rec, u, dialog_messages[n].user,
                                            reply, target, FALSE, t)
               IN  /\ SetBotState(r.B)
                   /\ proc' = [proc EXCEPT ![p] = r.rec]
    /\ nops' = nops + 1 /\ now' = t
    /\ UNCHANGED <<next_message_id, ncancels, user_cache>>

\* /retry that is no reply
RetryHandle(p, u, t) == RetryHandleReply(p, u, NoReply, t)

(***************************************************************************)
(* Voice messages, lines 678-739                                           *)
(***************************************************************************)
VoiceDurations == {30}

\* lines 683-716: up to the download of the voice file
VoiceHandle(p, u, t) ==
    /\ Free(p) /\ nops < MaxOps
    /\ LET B1 == register_user_if_not_registered(BotState, u, t)
           rec == [IdleProc EXCEPT !.kind = "voice", !.user = u,
                                   !.started_locked = SlotHeld(u)]
           B2 == update_last_interaction(B1, u, t)
           remaining == _get_user_attribute(B2.D, u, "n_remaining_transcribed_seconds")
           r == IF is_previous_message_not_answered_yet(B1, u)
                THEN [B |-> B1,
                      rec |-> Done(rec, "busy", FALSE)]
                ELSE IF remaining <= 0
                THEN [B |-> B2,
                      rec |-> Done(rec, "voice_limit", FALSE)]
                ELSE [B |-> B2,
                      rec |-> [rec EXCEPT
                                 !.pc = "voice_wait",
                                 !.current_n_remaining_transcribed_seconds = remaining]]
       IN  /\ SetBotState(r.B)
           /\ proc' = [proc EXCEPT ![p] = r.rec]
    /\ nops' = nops + 1 /\ now' = t
    /\ UNCHANGED <<next_message_id, ncancels, user_cache>>

\* lines 715-739: download, transcription and the reply with the transcript
\* return; the counters are stored and message_handle is called
VoiceTranscribed(p, transcribed_text, duration) ==
    /\ proc[p].pc = "voice_wait"
    /\ LET u == proc[p].user
           rec == [proc[p] EXCEPT !.started_locked = SlotHeld(u)]
           D1 == _set_user_attribute(Store, u, "n_transcribed_seconds",
                     _get_user_attribute(Store, u, "n_transcribed_seconds") + duration)
           D2 == _set_user_attribute(D1, u, "n_remaining_transcribed_seconds",
                     rec.current_n_remaining_transcribed_seconds - duration)
           r == message_handle([BotState EXCEPT !.D = D2], p, rec, u,
                               transcribed_text, NoReply, NoTarget, TRUE, now)
       IN  /\ SetBotState(r.B)
           /\ proc' = [proc EXCEPT ![p] = r.rec]
    /\ UNCHANGED <<next_message_id, now, nops, ncancels, user_cache>>

\* lines 715-728: the download, the transcription or the reply raises
VoiceFailed(p) ==
    /\ proc[p].pc = "voice_wait"
    /\ proc' = [proc EXCEPT ![p] = Done(proc[p], "raised", TRUE)]
    /\ UNCHANGED <<users, dialogs, user_semaphores, user_tasks, next_message_id,
                   now, nops, ncancels, user_cache>>

(***************************************************************************)
(* Specification                                                           *)
(***************************************************************************)
Init ==
    /\ users = [u \in Users |-> NoUserDoc]
    /\ dialogs = [u \in Users |-> <<>>]
    /\ user_semaphores = [u \in Users |-> None]
    /\ user_tasks = [u \in Users |-> NoProc]
    /\ proc = [p \in Procs |-> IdleProc]
    /\ next_message_id = 1
    /\ now = 0
    /\ nops = 0
    /\ ncancels = 0
    /\ user_cache = [u \in Users |-> NoUserDoc]

Next ==
    \/ \E p \in Procs, u \in Senders, text \in MessageTexts, t \in Times :
           MessageHandle(p, u, text, t)
    \/ \E p \in Procs, u \in Senders, t \in Times : RetryHandle(p, u, t)
    \/ \E p \in Procs, u \in Senders, t \in Times : VoiceHandle(p, u, t)
    \/ \E p \in Procs, text \in MessageTexts, d \in VoiceDurations :
           VoiceTranscribed(p, text, d)
    \/ \E p \in Procs : VoiceFailed(p)
    \/ \E p \in Procs, u \in Senders, t \in Times : HelpHandle(p, u, t)
    \/ \E p \in Procs, ok \in BOOLEAN : HelpReplied(p, ok)
    \/ \E p \in Procs : HelpWake(p)
    \/ \E p \in Procs, res \in {"suspend", "return", "raise"} : HelpTaskStep(p, res)
    \/ \E u \in Senders, t \in Times : CancelHandle(u, t)
    \/ \E p \in Procs, t \in Times : TaskStart(p, t)
    \/ \E p \in Procs, ok \in BOOLEAN, t \in Times : TimeoutReplied(p, ok, t)
    \/ \E p \in Procs, ok \in BOOLEAN : PlaceholderReplied(p, ok)
    \/ \E p \in Procs, ok \in BOOLEAN : EmptyReplied(p, ok)
    \/ \E p \in Procs, ev \in CreateEvents \cup StreamEvents \cup ChunkEvents :
           ProviderEvent(p, ev)
    \/ \E p \in Procs, res \in EditResults : EditDone(p, res)
    \/ \E p \in Procs, ok \in BOOLEAN : EditFallbackDone(p, ok)
    \/ \E p \in Procs, ok \in BOOLEAN : TooLongReplied(p, ok)
    \/ \E p \in Procs, ok \in BOOLEAN : ErrorReplied(p, ok)
    \/ \E p \in Procs : DeliverCancel(p)
    \/ \E p \in Procs : Resume(p)
    \/ \E p \in Procs, ok \in BOOLEAN : CancelReplied(p, ok)

Spec == Init /\ [][Next]_vars

(***************************************************************************)
(* The event loop runs a task that is ready: a requested CancelledError is *)
(* thrown into the task, and message_handle resumes when its task is done. *)
(* The reply "cancelled" returns or raises.                                *)
(***************************************************************************)
FairSpec ==
    /\ Spec
    /\ \A p \in Procs : WF_vars(DeliverCancel(p))
    /\ \A p \in Procs : WF_vars(Resume(p))
    /\ \A p \in Procs : WF_vars(\E ok \in BOOLEAN : CancelReplied(p, ok))

(***************************************************************************)
(* The generator on histories of up to MaxHist Turns: one text message is  *)
(* dispatched for a user whose current dialog holds n Turns.               *)
(***************************************************************************)
\* the locals of message_handle_fn when it stores the i-th Turn of a history
HistRec(D, i) ==
    [IdleProc EXCEPT !.user = "u1", !.message_text = "hello",
                     !.answer = Rep("x", i), !.placeholder_id = i,
                     !.current_model = get_current_model(D, "u1"),
                     !.n_input_tokens = UsageChunk.usage[1],
                     !.n_output_tokens = UsageChunk.usage[2],
                     !.current_n_remaining_tokens = get_n_remaining_tokens(D, "u1")]

\* the store after u1 has registered and n messages have been answered
RECURSIVE StoreAfter(_)
StoreAfter(n) ==
    IF n = 0
    THEN start_new_dialog(
             register_new_user([users |-> [u \in Users |-> NoUserDoc],
                                dialogs |-> [u \in Users |-> <<>>]], "u1", 0), "u1")
    ELSE Commit(StoreAfter(n - 1), HistRec(StoreAfter(n - 1), n))

InitGen ==
    \E n \in 0..MaxHist :
        LET B0 == [D |-> StoreAfter(n),
                   sems |-> [u \in Users |-> IF u = "u1" THEN 1 ELSE None],
                   tasks |-> [u \in Users |-> NoProc]]
            r == message_handle(B0, 1, [IdleProc EXCEPT !.kind = "message"],
                                "u1", "hello", NoReply, NoTarget, TRUE, 0)
        IN  /\ users = r.B.D.users
            /\ dialogs = r.B.D.dialogs
            /\ user_semaphores = r.B.sems
            /\ user_tasks = r.B.tasks
            /\ proc = [p \in Procs |-> IF p = 1 THEN r.rec ELSE IdleProc]
            /\ next_message_id = n + 1
            /\ now = 0
            /\ nops = MaxOps
            /\ ncancels = MaxCancels
            /\ user_cache = [u \in Users |-> NoUserDoc]

\* the first chunk of the stream is a content delta longer than a Telegram
\* message
LongProviderEvent(p) ==
    /\ proc[p].gen.st = "stream" /\ proc[p].gen.chunks = 0
    /\ ProviderStep(p, Event("chunk", [choices |-> TRUE,
                                       content |-> Rep("x", MESSAGE_LENGTH_LIMIT + 4),
                                       usage |-> NoUsage]))

\* the provider answers with status 400 for a reason other than the context
\* length
OtherBadRequestEvent(p) ==
    /\ proc[p].gen.st \in {"create", "stream"}
    /\ proc[p].gen.n_input_tokens = None
    /\ ProviderStep(p, Event("bad_request_other", UsageChunk))

\* the edit of the final element returns and a write of lines 534-545 raises
\* after `written` of the three writes (Turns, used tokens, remaining tokens)
\* have reached the store: the exception is caught at line 552
EditDoneStoreFails(p, written) ==
    /\ proc[p].pc = "await_edit" /\ Running(p) /\ proc[p].status = "finished"
    /\ LET rec == proc[p]
           u == rec.user
           D1 == set_dialog_messages(Store, u,
                     Append(get_dialog_messages(Store, u, None),
                            Turn(rec.message_text, rec.answer, rec.placeholder_id)),
                     None)
           D2 == set_n_used_tokens(D1, u, rec.current_model,
                                   rec.n_input_tokens, rec.n_output_tokens)
           D == CASE written = 0 -> Store
                  [] written = 1 -> D1
                  [] OTHER -> D2
       IN  /\ users' = D.users /\ dialogs' = D.dialogs
           /\ proc' = [proc EXCEPT ![p] =
                          ExceptException([rec EXCEPT !.previous_answer = rec.answer])]
    /\ UNCHANGED <<user_semaphores, user_tasks, next_message_id, now, nops, ncancels, user_cache>>

NextGen ==
    \/ \E p \in Procs, t \in Times : TaskStart(p, t)
    \/ \E p \in Procs, written \in 0..2 : EditDoneStoreFails(p, written)
    \/ \E p \in Procs : OtherBadRequestEvent(p)
    \/ \E p \in Procs : LongProviderEvent(p)
    \/ \E p \in Procs, ok \in BOOLEAN, t \in Times : TimeoutReplied(p, ok, t)
    \/ \E p \in Procs, ok \in BOOLEAN : PlaceholderReplied(p, ok)
    \/ \E p \in Procs, ev \in CreateEvents \cup StreamEvents \cup ChunkEvents :
           ProviderEvent(p, ev)
    \/ \E p \in Procs, res \in EditResults : EditDone(p, res)
    \/ \E p \in Procs, ok \in BOOLEAN : EditFallbackDone(p, ok)
    \/ \E p \in Procs, ok \in BOOLEAN : TooLongReplied(p, ok)
    \/ \E p \in Procs, ok \in BOOLEAN : ErrorReplied(p, ok)
    \/ \E p \in Procs : Resume(p)

SpecGen == InitGen /\ [][NextGen]_vars

(***************************************************************************)
(* The relay loop on synthetic streams: the provider accepts the request,  *)
(* sends up to MaxRelayChunks content deltas of the sizes RelayChunkSizes  *)
(* and ends the stream.                                                    *)
(***************************************************************************)
RelayChunkSizes == {10, 40, 60, 110}
RelayEvents ==
    {Event("ok", UsageChunk), Event("end", UsageChunk)}
    \cup {Event("chunk", [choices |-> TRUE, content |-> Rep("x", n), usage |-> NoUsage]) :
             n \in RelayChunkSizes}

RelayProviderEvent(p, ev) ==
    /\ IF proc[p].gen.st = "create" THEN ev.kind = "ok"
       ELSE ev.kind = "end" \/ (ev.kind = "chunk" /\ proc[p].gen.chunks < MaxRelayChunks)
    /\ ProviderStep(p, ev)

InitRelay == InitGen /\ get_dialog_messages(Store, "u1", None) = <<>>

NextRelay ==
    \/ \E p \in Procs : TaskStart(p, now)
    \/ \E p \in Procs, ok \in BOOLEAN : PlaceholderReplied(p, ok)
    \/ \E p \in Procs, ev \in RelayEvents : RelayProviderEvent(p, ev)
    \/ \E p \in Procs, res \in EditResults : EditDone(p, res)
    \/ \E p \in Procs, ok \in BOOLEAN : EditFallbackDone(p, ok)
    \/ \E p \in Procs, ok \in BOOLEAN : ErrorReplied(p, ok)
    \/ \E p \in Procs : Resume(p)

SpecRelay == InitRelay /\ [][NextRelay]_vars

(***************************************************************************)
(* Replies and context switches: one user sends text messages, which may   *)
(* be replies, and chooses chat modes; every answer is generated from one  *)
(* content delta and every call of the Telegram API returns.               *)
(***************************************************************************)
\* the messages a new message can reply to: a message of another user, or a
\* message of the bot (id 0: a notice that is no answer; the other ids: the
\* answers sent so far).  A message of a private or group chat has a sender:
\* the kind "anonymous" is no input.
Replies ==
    {NoReply, ReplyTo("user", 0)}
    \cup {ReplyTo("bot", m) : m \in 0..(next_message_id - 1)}

\* a created task takes its first step in the iteration of the event loop
\* that follows create_task: the clock does not advance by TickSeconds while
\* a task waits for its first step
HandledAt(t) == (\E q \in Procs : proc[q].pc = "task_created") => t = now

\* message_handle for a text message that may be a reply
MessageHandleReply(p, u, reply, t) ==
    /\ Free(p) /\ nops < MaxSwitchOps /\ HandledAt(t)
    \* the bot has sent messages to u only after a handler has registered u
    /\ reply.kind = "bot" => is_user_registered(Store, u)
    /\ \E target \in (IF reply.kind = "bot"
                       THEN get_dialog_id(
                                register_user_if_not_registered(BotState, u, t).D,
                                u, reply.message_id)
                       ELSE {NoTarget}) :
           LET r == message_handle(BotState, p,
                                   [IdleProc EXCEPT !.kind = "message",
                                                    !.started_locked = SlotHeld(u)],
                                   u, "hello", reply, target, TRUE, t)
           IN  /\ SetBotState(r.B)
               /\ proc' = [proc EXCEPT ![p] = r.rec]
    /\ nops' = nops + 1 /\ now' = t
    /\ UNCHANGED <<next_message_id, ncancels, user_cache>>

\* set_chat_mode_handle, lines 961-1008: the user is registered, and after
\* the awaits of lines 977 and 993 the chat mode is set and a dialog started
SetChatModeHandle(u, chat_mode, t) ==
    /\ nops < MaxSwitchOps /\ HandledAt(t)
    /\ LET B1 == update_last_interaction(
                     register_user_if_not_registered(BotState, u, t), u, t)
           D2 == start_new_dialog(set_current_chat_mode(B1.D, u, chat_mode), u)
       IN  SetBotState([B1 EXCEPT !.D = D2])
    /\ nops' = nops + 1 /\ now' = t
    /\ UNCHANGED <<proc, next_message_id, ncancels, user_cache>>

\* the provider accepts the request, sends one content delta and ends the
\* stream, or rejects the request with an error other than BadRequestError
SwitchProviderEvent(p, ok) ==
    ProviderStep(p, IF proc[p].gen.st = "create"
                    THEN Event(IF ok THEN "ok" ELSE "error", UsageChunk)
                    ELSE IF proc[p].gen.chunks = 0 THEN Event("chunk", ContentChunk)
                    ELSE Event("end", UsageChunk))

NextSwitch ==
    \/ \E p \in Procs, u \in Senders, reply \in Replies, t \in Times :
           MessageHandleReply(p, u, reply, t)
    \/ \E u \in Senders, chat_mode \in ChatModes, t \in Times :
           SetChatModeHandle(u, chat_mode, t)
    \/ \E p \in Procs : TaskStart(p, now)
    \/ \E p \in Procs : TimeoutReplied(p, TRUE, now)
    \/ \E p \in Procs : PlaceholderReplied(p, TRUE)
    \/ \E p \in Procs, ok \in BOOLEAN : SwitchProviderEvent(p, ok)
    \/ \E p \in Procs : EditDone(p, "ok")
    \/ \E p \in Procs : ErrorReplied(p, TRUE)
    \/ \E p \in Procs : Resume(p)

SpecSwitch == Init /\ [][NextSwitch]_vars

(***************************************************************************)
(* Two users: the application handles updates concurrently                 *)
(* (concurrent_updates(True), bot.py:1227), so the handlers of two users   *)
(* interleave at their awaits.                                             *)
(***************************************************************************)
NextPair ==
    \/ \E p \in Procs, u \in Users : MessageHandle(p, u, "hello", now)
    \/ \E u \in Users : CancelHandle(u, now)
    \/ \E p \in Procs : TaskStart(p, now)
    \/ \E p \in Procs : PlaceholderReplied(p, TRUE)
    \/ \E p \in Procs, ok \in BOOLEAN : SwitchProviderEvent(p, ok)
    \/ \E p \in Procs : EditDone(p, "ok")
    \/ \E p \in Procs : ErrorReplied(p, TRUE)
    \/ \E p \in Procs : DeliverCancel(p)
    \/ \E p \in Procs : Resume(p)
    \/ \E p \in Procs : CancelReplied(p, TRUE)

SpecPair == Init /\ [][NextPair]_vars

(***************************************************************************)
(* /retry, possibly sent as a reply to an answer, for a user whose current *)
(* dialog holds 0..MaxHist answered messages (bot message ids 1..n).       *)
(***************************************************************************)
InitRetry ==
    \E n \in 0..MaxHist :
        /\ users = StoreAfter(n).users
        /\ dialogs = StoreAfter(n).dialogs
        /\ user_semaphores = [u \in Users |-> IF u = "u1" THEN 1 ELSE None]
        /\ user_tasks = [u \in Users |-> NoProc]
        /\ proc = [p \in Procs |-> IdleProc]
        /\ next_message_id = n + 1
        /\ now = 0
        /\ nops = MaxOps - 1
        /\ ncancels = MaxCancels
        /\ user_cache = [u \in Users |-> NoUserDoc]

NextRetry ==
    \/ \E p \in Procs, t \in Times,
          reply \in {NoReply} \cup {ReplyTo("bot", m) : m \in 1..MaxHist} :
           RetryHandleReply(p, "u1", reply, t)
    \/ \E p \in Procs : TaskStart(p, now)
    \/ \E p \in Procs : PlaceholderReplied(p, TRUE)
    \/ \E p \in Procs, ok \in BOOLEAN : SwitchProviderEvent(p, ok)
    \/ \E p \in Procs : EditDone(p, "ok")
    \/ \E p \in Procs : ErrorReplied(p, TRUE)
    \/ \E p \in Procs : Resume(p)

SpecRetry == InitRetry /\ [][NextRetry]_vars

(***************************************************************************)
(* Properties                                                              *)
(***************************************************************************)
\* the positions of message_handle_fn from its first statement to its end
InHandlerPcs == {"await_timeout_reply", "await_placeholder", "await_empty_reply",
                 "gen", "await_edit", "await_edit_fallback", "await_error_reply",
                 "await_toolong_reply"}
InHandler(p) == IsMessageTask(proc[p]) /\ proc[p].pc \in InHandlerPcs

\* C1: of the invocations of message_handle of one user that overlap, one
\* runs message_handle_fn and every other one is answered "wait for reply"
\* (busy) without running it: no two message_handle_fn of the same user are
\* running in the same state, an invocation that arrives while the slot of its
\* user is held ends busy with its handler never started, and an invocation
\* that arrives while the slot is not held is not answered busy.
C1_MutualExclusion ==
    /\ \A p, q \in Procs :
           InHandler(p) /\ InHandler(q) /\ proc[p].user = proc[q].user => p = q
    /\ \A p \in Procs :
           IsMessageTask(proc[p]) /\ proc[p].started_locked
               => /\ proc[p].pc = "done"
                  /\ proc[p].outcome = "busy"
                  /\ ~proc[p].handler_started
    /\ \A p \in Procs :
           proc[p].kind = "message" /\ ~proc[p].started_locked
               => proc[p].outcome # "busy"

\* two text messages of one user overlap: one is in its handler, the other
\* has been answered busy
C1_Witness ==
    \E p, q \in Procs :
        /\ p # q /\ proc[p].user = proc[q].user
        /\ proc[p].kind = "message" /\ InHandler(p)
        /\ proc[q].kind = "message" /\ proc[q].pc = "done"
        /\ proc[q].outcome = "busy" /\ ~proc[q].handler_started

\* C2: after a dispatch has ended, however it ended, the semaphore of its user
\* is free and the user has no task handle: whenever no invocation of a user
\* is between taking and releasing the slot, the slot is free.
C2_SlotAlwaysReleased ==
    \A u \in Users :
        ~SlotHeld(u) => ~Locked(user_semaphores, u) /\ user_tasks[u] = NoProc

\* a dispatch of a message has ended by cancellation and the slot is free
C2_Witness ==
    \E p \in Procs :
        /\ IsMessageTask(proc[p]) /\ proc[p].pc = "done"
        /\ proc[p].outcome = "cancelled"
        /\ ~SlotHeld(proc[p].user)
        /\ user_semaphores[proc[p].user] = 1
        /\ user_tasks[proc[p].user] = NoProc

\* C3: a user has at most one task handle, and while user_tasks holds a handle
\* of user u, the semaphore of u is locked and held by the invocation that
\* stored the handle; no two invocations hold the slot of one user.
C3_HandleImpliesPermit ==
    /\ \A u \in Users :
           user_tasks[u] # NoProc
               => /\ Locked(user_semaphores, u)
                  /\ proc[user_tasks[u]].user = u
                  /\ proc[user_tasks[u]].pc \in Holding
    /\ \A p, q \in Procs :
           /\ proc[p].pc \in Holding /\ proc[q].pc \in Holding
           /\ proc[p].user = proc[q].user
           => p = q

\* the handle of a /help task is stored while the task runs
C3_Witness ==
    \E u \in Users :
        /\ user_tasks[u] # NoProc
        /\ proc[user_tasks[u]].kind = "help"
        /\ proc[user_tasks[u]].pc = "help_running"

\* C4 (as claimed): a request that arrives while the slot of its user is held
\* is answered busy at once: it never waits for the slot and its task never
\* runs.
C4_BusyNotQueued ==
    \A p \in Procs :
        proc[p].started_locked
            => /\ proc[p].pc # "help_wait"
               /\ ~proc[p].handler_started
               /\ (proc[p].pc = "done" => proc[p].outcome \in {"busy", "raised"})

\* C5 (as claimed): an exception other than CancelledError raised in
\* message_handle_fn ends in the "completion error" reply and never leaves
\* message_handle.
C5_AllCaught ==
    \A p \in Procs :
        IsMessageTask(proc[p]) /\ proc[p].raised_in_fn
            => /\ proc[p].result \in {"none", "returned", "cancelled"}
               /\ (proc[p].result = "returned"
                       => proc[p].handler_result = "completion_error")

\* C6: a /cancel that finds the task of a generation not done leads to the
\* end of the dispatch by the "cancelled" branch of message_handle, with the
\* task handle deleted and the semaphore released.
C6_CancelLeadsToCancelled ==
    \A p \in Procs :
        (IsMessageTask(proc[p]) /\ proc[p].cancel_requested)
            ~> (/\ proc[p].pc = "done"
                /\ proc[p].outcome = "cancelled"
                /\ user_tasks[proc[p].user] = NoProc
                /\ ~Locked(user_semaphores, proc[p].user))

\* a generation was cancelled while waiting for the provider and its dispatch
\* is at the reply "cancelled"
C6_Witness ==
    \E p \in Procs :
        /\ IsMessageTask(proc[p]) /\ proc[p].pc = "await_cancel_reply"
        /\ proc[p].cancel_pos = "gen"
        /\ user_tasks[proc[p].user] = p

\* C7: a consumer cancelled while it waits for the next element of the stream
\* has received no element with is_finished and no token counts.
C7_NoFinalAfterCancel ==
    \A p \in Procs :
        proc[p].cancel_pos = "gen"
            => ~proc[p].got_final /\ ~proc[p].got_counts

\* the consumer is cancelled between two elements: one has been received
C7_Witness ==
    \E p \in Procs :
        /\ proc[p].cancel_pos = "gen" /\ proc[p].n_items = 1
        /\ proc[p].result = "cancelled"

\* a Turn with the message id of p's placeholder is stored in a dialog of p's
\* user
TurnStored(p) ==
    \E d \in 1..Len(dialogs[proc[p].user]) :
        \E i \in 1..Len(dialogs[proc[p].user][d].messages) :
            dialogs[proc[p].user][d].messages[i].message_id = proc[p].placeholder_id

\* C8 (as claimed): when a dispatch is at the "cancelled" report, no Turn of
\* its message is stored.
C8_CancelledStoresNoTurn ==
    \A p \in Procs :
        IsMessageTask(proc[p]) /\ proc[p].pc = "await_cancel_reply"
            => ~TurnStored(p)

\* C8 (amended): when a dispatch is at the "cancelled" report and the
\* CancelledError was thrown before the notice "dialog is too long" (line
\* 572), no Turn of its message is stored.
C8_CancelledBeforeCommitStoresNoTurn ==
    \A p \in Procs :
        /\ IsMessageTask(proc[p]) /\ proc[p].pc = "await_cancel_reply"
        /\ proc[p].cancel_pos # "await_toolong_reply"
        => ~TurnStored(p)

\* the task was cancelled in the edit of the final element, just before the
\* Turn would have been stored
C8_Witness ==
    \E p \in Procs :
        /\ IsMessageTask(proc[p]) /\ proc[p].pc = "await_cancel_reply"
        /\ proc[p].cancel_pos = "await_edit" /\ proc[p].got_final
        /\ ~TurnStored(p)

\* the positions of the relay loop, lines 498-528
LoopPcs == {"gen", "await_edit", "await_edit_fallback"}

\* an entry of n_used_tokens after (i, o) is added to it
UsedAfter(old, i, o) ==
    IF old = Absent
    THEN [n_input_tokens |-> i, n_output_tokens |-> o]
    ELSE [n_input_tokens |-> old.n_input_tokens + i,
          n_output_tokens |-> old.n_output_tokens + o]

\* C9: after a cancellation in the relay loop, the usage entry of the user
\* and model is the entry at the start of the handler plus the counts of the
\* last element received: (0, 0) when no element carried counts, the counts
\* of the provider otherwise.
C9_CancelCommitsUsage ==
    \A p \in Procs :
        /\ IsMessageTask(proc[p]) /\ proc[p].result = "cancelled"
        /\ proc[p].pc \in {"task_done", "await_cancel_reply"}
        /\ proc[p].cancel_pos \in LoopPcs
        => /\ users[proc[p].user].n_used_tokens[proc[p].current_model]
                  = UsedAfter(proc[p].used_at_start,
                              proc[p].n_input_tokens, proc[p].n_output_tokens)
           /\ IF proc[p].got_counts
              THEN <<proc[p].n_input_tokens, proc[p].n_output_tokens>>
                       = UsageChunk.usage
              ELSE proc[p].n_input_tokens = 0 /\ proc[p].n_output_tokens = 0

\* the task was cancelled after the final element had brought the counts
C9_Witness ==
    \E p \in Procs :
        /\ IsMessageTask(proc[p]) /\ proc[p].pc = "await_cancel_reply"
        /\ proc[p].cancel_pos \in LoopPcs /\ proc[p].got_counts
        /\ proc[p].used_at_start = Absent
        /\ users[proc[p].user].n_used_tokens[proc[p].current_model].n_input_tokens
               = UsageChunk.usage[1]

\* C10: with a history of N Turns and BadRequestError on every attempt so
\* far, the k-th attempt is made with the history without its k-1 oldest
\* Turns; the generator raises at attempt N+1, made with the empty history;
\* never more than N+1 attempts are made.
C10_TrimTerminates ==
    \A p \in Procs :
        LET g == proc[p].gen
            N == g.dialog_messages_len_before
            orig == get_dialog_messages(Store, proc[p].user, None)
        IN  g.st # "none"
            => /\ g.attempts <= N + 1
               /\ g.all_too_long
                   => /\ g.attempts = N - Len(g.dialog_messages) + 1
                      /\ g.dialog_messages = SubSeq(orig, g.attempts, N)
                      /\ g.messages = _compose_completion_messages(
                             g.message_text, g.dialog_messages, g.chat_mode)
                      /\ g.st \in {"create", "done"}
                      /\ g.st = "done"
                          => /\ g.exc = "BadRequestError"
                             /\ g.attempts = N + 1
                             /\ g.dialog_messages = <<>>

\* every attempt on a history of at least two Turns failed and the error was
\* raised
C10_Witness ==
    \E p \in Procs :
        /\ proc[p].gen.st = "done" /\ proc[p].gen.all_too_long
        /\ proc[p].gen.exc = "BadRequestError"
        /\ proc[p].gen.dialog_messages_len_before >= 2
        /\ proc[p].gen.attempts = proc[p].gen.dialog_messages_len_before + 1

\* C11 (as claimed): the count of removed Turns that reaches the caller is the
\* number of Turns dropped before the first successful attempt, and N when
\* every attempt on a history of N Turns has failed.
C11_RemovedCountReported ==
    \A p \in Procs :
        LET g == proc[p].gen
        IN  /\ g.st \in {"stream", "final"} /\ g.n_messages_removed # None
                => g.n_messages_removed = g.attempts - 1
            /\ g.st = "done" /\ g.all_too_long
                => proc[p].n_first_dialog_messages_removed
                       = g.dialog_messages_len_before

\* C11 (amended): every element of the stream carries the number of Turns
\* dropped before the attempt that succeeded (0 when the first one did); when
\* every attempt has failed the generator raises, no element and no count
\* reach the caller, and the caller's count is still 0.
C11_RemovedCountOfSuccess ==
    \A p \in Procs :
        LET g == proc[p].gen
        IN  /\ g.st \in {"stream", "final"} /\ g.n_messages_removed # None
                => g.n_messages_removed = g.attempts - 1
            /\ g.st = "done" /\ g.all_too_long
                => /\ proc[p].n_items = 0
                   /\ proc[p].n_first_dialog_messages_removed = 0

\* the final element was yielded after two Turns had been dropped
C11_Witness ==
    \E p \in Procs :
        /\ proc[p].gen.st = "final" /\ proc[p].got_final
        /\ proc[p].gen.n_messages_removed = 2
        /\ proc[p].gen.attempts = 3

\* C12 (as claimed): of the elements a generate invocation hands to its
\* consumer, the one with is_finished is the last, it carries the token
\* counts, and no other element carries them.
C12_OneFinalWithCounts ==
    \A p \in Procs :
        /\ proc[p].pc = "gen" => ~proc[p].got_final
        /\ proc[p].got_counts => proc[p].got_final
        /\ proc[p].got_final => proc[p].got_counts


\* the final element is handed to the message-edit sink
FinalPushed(rec) ==
    /\ rec.status = "finished" => rec.pc # "gen"
    /\ rec.status = "finished" /\ rec.pc \in {"await_edit", "await_edit_fallback"}
           => rec.pushed # <<>> /\ rec.pushed[Len(rec.pushed)] = Len(rec.answer)

\* C13 (as claimed): an element is pushed to the message-edit sink only if it
\* is the final one or its text is at least 100 characters longer than the
\* text of the last push (0 before the first push); the final element is
\* always pushed.
C13_PushOnlyOnGrowth ==
    \A p \in Procs :
        /\ proc[p].pc = "await_edit"
               => \/ proc[p].status = "finished"
                  \/ LET n == Len(proc[p].pushed)
                         last_pushed == IF n >= 2 THEN proc[p].pushed[n - 1] ELSE 0
                     IN  Len(proc[p].answer) - last_pushed >= EDIT_THRESHOLD
        /\ FinalPushed(proc[p])

\* C13 (amended): an element is pushed only if it is the final one or its
\* text is at least 100 characters longer than previous_answer, the text of
\* the last push that was not answered "Message is not modified"; the final
\* element is always pushed.
C13_PushOnlyOnGrowthSinceEdit ==
    \A p \in Procs :
        /\ proc[p].pc = "await_edit"
               => \/ proc[p].status = "finished"
                  \/ Len(proc[p].answer) - Len(proc[p].previous_answer)
                         >= EDIT_THRESHOLD
        /\ FinalPushed(proc[p])

\* a second partial answer is pushed
C13_Witness ==
    \E p \in Procs :
        /\ proc[p].pc = "await_edit" /\ proc[p].status = "not_finished"
        /\ Len(proc[p].pushed) = 2

\* the relay loop has taken partial answers of lengths 10, 50, 90, 150, 260
\* and the final element,
\* and has handed the final element to the sink
P7Relayed(rec) ==
    /\ rec.status = "finished" /\ rec.pc = "await_edit"
    /\ Len(rec.seen) = 6
    /\ SubSeq(rec.seen, 1, 5) = <<10, 50, 90, 150, 260>>

\* C14 (as claimed): of partial answers of lengths 10, 50, 90, 150, 260 and
\* the final element, only the 150-length one and the final one are handed to
\* the message-edit sink.
C14_P7PushesTwo ==
    \A p \in Procs :
        P7Relayed(proc[p]) => proc[p].pushed = <<150, Len(proc[p].answer)>>

\* C14 (amended): the 150-length element, the 260-length element and the
\* final element are handed to the message-edit sink, and no other.
C14_P7PushesThree ==
    \A p \in Procs :
        P7Relayed(proc[p]) => proc[p].pushed = <<150, 260, Len(proc[p].answer)>>

\* the stream of P7 has been relayed and every edit has returned
C14_Witness ==
    \E p \in Procs :
        /\ P7Relayed(proc[p])
        /\ Len(proc[p].previous_answer) = 260

\* message_handle has run for invocation p in this step and
\* switch_context_if_needed has returned result
Switch(p, result) ==
    /\ proc[p].pc \in {"idle", "done"} /\ proc'[p].pc = "task_created"
    /\ proc'[p].context_switch = result

\* the messages of the current dialog of u
CurrentMessages(u) == get_dialog_messages(Store, u, None)

\* C15: when switch_context_if_needed returns SWITCHED for a reply that
\* get_dialog_id resolves to Turn i of dialog D, a dialog is added, it is the
\* current one, its Turns are the Turns 0..i of D in order, and the dialogs
\* that existed are unchanged.
C15_ForkHoldsPrefix ==
    [][\A p \in Procs :
          Switch(p, "SWITCHED") =>
              LET u == proc'[p].user
                  D == proc'[p].target[1]
                  i == proc'[p].target[2]
                  n == Len(dialogs[u])
              IN  /\ Len(dialogs'[u]) = n + 1
                  /\ users'[u].current_dialog_id = n + 1
                  /\ dialogs'[u][n + 1].messages = SubSeq(dialogs[u][D].messages, 1, i + 1)
                  /\ SubSeq(dialogs'[u], 1, n) = dialogs[u]]_vars

\* a reply to the first of two Turns has forked a dialog that holds one Turn
C15_Witness ==
    \E p \in Procs :
        /\ proc[p].pc = "task_created" /\ proc[p].context_switch = "SWITCHED"
        /\ Len(CurrentMessages(proc[p].user)) = 1
        /\ Len(dialogs[proc[p].user][proc[p].target[1]].messages) = 2
        /\ proc[p].target[2] = 0

\* C16 (as claimed): a reply to the bot message of the last Turn of the
\* current dialog is never answered with SWITCHED, and no dialog is created.
C16_ReplyToLastNotNeeded ==
    [][\A p \in Procs, u \in Senders, reply \in Replies, t \in Times :
          (/\ MessageHandleReply(p, u, reply, t)
           /\ reply.kind = "bot"
           /\ CurrentMessages(u) # <<>>
           /\ CurrentMessages(u)[Len(CurrentMessages(u))].message_id = reply.message_id
           /\ proc'[p].pc = "task_created")
          => /\ proc'[p].context_switch = "NOT_NEEDED"
             /\ dialogs' = dialogs]_vars

\* C17: a reply to a bot message whose id is in no dialog of the user is
\* answered with the notice of CANT_SWITCH; nothing is written to the store,
\* no task is created and the semaphore of the user is not taken.
C17_UnknownReplyCantSwitch ==
    [][\A p \in Procs, u \in Senders, reply \in Replies, t \in Times :
          (/\ MessageHandleReply(p, u, reply, t)
           /\ reply.kind = "bot"
           /\ get_dialog_id(Store, u, reply.message_id) = {NoTarget}
           /\ ~Locked(user_semaphores, u))
          => /\ proc'[p].pc = "done" /\ proc'[p].outcome = "cant_switch"
             /\ users' = users /\ dialogs' = dialogs
             /\ user_semaphores' = user_semaphores /\ user_tasks' = user_tasks]_vars

\* a reply was answered with the notice while the user has a stored Turn
C17_Witness ==
    \E p \in Procs :
        /\ proc[p].pc = "done" /\ proc[p].outcome = "cant_switch"
        /\ \E d \in 1..Len(dialogs[proc[p].user]) :
               dialogs[proc[p].user][d].messages # <<>>

\* C18: for a message of a registered user that is not a reply, or is a reply
\* to a message not sent by the bot, switch_context_if_needed returns
\* NOT_NEEDED and message_handle writes nothing to the store: the current
\* dialog id, the Turns, the current chat mode and the last interaction are
\* unchanged.
C18_NoReplyNotNeeded ==
    [][\A p \in Procs, u \in Senders, reply \in Replies, t \in Times :
          (/\ MessageHandleReply(p, u, reply, t)
           /\ reply.kind \in {"none", "user"}
           /\ is_user_registered(Store, u)
           /\ ~Locked(user_semaphores, u))
          => /\ proc'[p].pc = "task_created"
             /\ proc'[p].context_switch = "NOT_NEEDED"
             /\ users' = users /\ dialogs' = dialogs]_vars

\* a message that is no reply to the bot is dispatched after the time of the
\* last interaction, for a user with a stored Turn
C18_Witness ==
    \E p \in Procs :
        /\ proc[p].pc = "task_created" /\ proc[p].context_switch = "NOT_NEEDED"
        /\ proc[p].target = NoTarget
        /\ CurrentMessages(proc[p].user) # <<>>
        /\ now > get_last_interaction(Store, proc[p].user)

\* C19: after SWITCHED the current chat mode of the user and the chat mode of
\* the new dialog are the chat mode of the target dialog.
C19_ForkTakesMode ==
    [][\A p \in Procs :
          Switch(p, "SWITCHED") =>
              LET u == proc'[p].user
                  target_chat_mode == dialogs[u][proc'[p].target[1]].chat_mode
              IN  /\ users'[u].current_chat_mode = target_chat_mode
                  /\ dialogs'[u][users'[u].current_dialog_id].chat_mode
                         = target_chat_mode]_vars

\* a reply has switched from a dialog in one chat mode to a fork of a dialog
\* in another
C19_Witness ==
    \E p \in Procs :
        LET u == proc[p].user
        IN  /\ proc[p].pc = "task_created" /\ proc[p].context_switch = "SWITCHED"
            /\ get_current_chat_mode(Store, u) = "code_assistant"
            /\ dialogs[u][Len(dialogs[u]) - 1].chat_mode = "assistant"
            /\ proc[p].target[1] # Len(dialogs[u]) - 1

\* C20: the task of a reply that get_dialog_id has resolved to a stored Turn
\* finds the last interaction refreshed by the switch: its new-dialog-timeout
\* check starts no dialog and leaves the current dialog the one the switch
\* has selected.
C20_TimeoutKeepsSwitch ==
    [][\A p \in Procs :
          (/\ proc[p].pc = "task_created" /\ proc'[p].pc # "task_created"
           /\ proc[p].target # NoTarget)
          => /\ proc'[p].pc = "await_placeholder"
             /\ dialogs' = dialogs
             /\ users'[proc[p].user].current_dialog_id
                    = users[proc[p].user].current_dialog_id]_vars

\* the task of a reply that has switched the dialog has made its timeout
\* check half a day after the interaction before the reply
C20_Witness ==
    \E p \in Procs :
        /\ proc[p].pc = "await_placeholder" /\ proc[p].context_switch = "SWITCHED"
        /\ now = TickSeconds
        /\ CurrentMessages(proc[p].user) # <<>>

C22_UsageOnlyGrows ==
    [][\A u \in Users, m \in OPENAI_SUPPORTED_MODELS :
          LET old == users[u].n_used_tokens[m]
              new == users'[u].n_used_tokens[m]
          IN  /\ old # Absent
                 => /\ new # Absent
                    /\ new.n_input_tokens >= old.n_input_tokens
                    /\ new.n_output_tokens >= old.n_output_tokens
              /\ \A i, o \in {0, 2, 5} :
                    LET after == set_n_used_tokens(Store, u, m, i, o).users[u].n_used_tokens
                    IN  /\ after[m].n_input_tokens =
                              (IF old = Absent THEN 0 ELSE old.n_input_tokens) + i
                        /\ after[m].n_output_tokens =
                              (IF old = Absent THEN 0 ELSE old.n_output_tokens) + o
                        /\ \A m2 \in OPENAI_SUPPORTED_MODELS \ {m} :
                              after[m2] = users[u].n_used_tokens[m2]]_vars

\* the counts of two answers have been added to the entry of one model
C22_Witness ==
    \E u \in Users :
        LET entry == users[u].n_used_tokens[DefaultModel]
        IN  /\ entry # Absent
            /\ entry.n_input_tokens = 2 * UsageChunk.usage[1]
            /\ entry.n_output_tokens = 2 * UsageChunk.usage[2]
            /\ \A p \in Procs : proc[p].pc \in {"idle", "task_done"}

\* C23: a message of user A whose own slot is free takes A's slot and
\* creates A's task whatever the slot and the task handle of another user B
\* hold, and B's slot and handle are left as they were; in every case the
\* handler ends up where it would with B's slot and handle absent.
C23_OtherUserNoBarrier ==
    [][\A p \in Procs, A \in Users :
          MessageHandle(p, A, "hello", now)
          => LET alone == [BotState EXCEPT
                             !.sems = [x \in Users |-> IF x = A THEN @[x] ELSE None],
                             !.tasks = [x \in Users |-> IF x = A THEN @[x] ELSE NoProc]]
                 rec == [IdleProc EXCEPT !.kind = "message",
                                         !.started_locked = SlotHeld(A)]
             IN  /\ ~Locked(user_semaphores, A)
                    => /\ proc'[p].pc = "task_created"
                       /\ Locked(user_semaphores', A)
                       /\ user_tasks'[A] = p
                 /\ \A B \in Users \ {A} :
                       /\ user_semaphores'[B] = user_semaphores[B]
                       /\ user_tasks'[B] = user_tasks[B]
                 /\ proc'[p] = message_handle(alone, p, rec, A, "hello", NoReply,
                                              NoTarget, TRUE, now).rec]_vars

\* the generations of two users are in flight at once
C23_Witness ==
    /\ proc[1].user # proc[2].user
    /\ proc[1].pc = "gen" /\ proc[2].pc = "gen"
    /\ user_tasks[proc[1].user] = 1 /\ user_tasks[proc[2].user] = 2

\* C24 (as claimed): /cancel of a user without a task handle cancels no
\* task, replies 'nothing to cancel', and changes no slot, no task handle
\* and no dialog.
C24_CancelWithoutTaskChangesNothing ==
    [][\A u \in Users, t \in Times :
          CancelHandle(u, t) /\ user_tasks[u] = NoProc
          => /\ proc' = proc
             /\ cancel_handle(BotState, u, t).reply = "nothing_to_cancel"
             /\ user_semaphores' = user_semaphores
             /\ user_tasks' = user_tasks
             /\ dialogs' = dialogs
             /\ users'[u].current_dialog_id = users[u].current_dialog_id]_vars

\* C24 (amended): /cancel of a user without a task handle cancels no task,
\* replies 'nothing to cancel' and leaves the task handles as they were; for
\* a registered user whose slot exists it changes no slot and no dialog, and
\* for an unregistered user it registers the user with a first, empty,
\* current dialog and a free slot.
C24_CancelWithoutTaskOnlyRegisters ==
    [][\A u \in Users, t \in Times :
          CancelHandle(u, t) /\ user_tasks[u] = NoProc
          => /\ proc' = proc
             /\ cancel_handle(BotState, u, t).reply = "nothing_to_cancel"
             /\ user_tasks' = user_tasks
             /\ \A x \in Users \ {u} :
                   /\ user_semaphores'[x] = user_semaphores[x]
                   /\ dialogs'[x] = dialogs[x] /\ users'[x] = users[x]
             /\ is_user_registered(Store, u) /\ user_semaphores[u] # None
                   => /\ user_semaphores' = user_semaphores
                      /\ dialogs' = dialogs
                      /\ users' = [users EXCEPT ![u].last_interaction = t]
             /\ ~is_user_registered(Store, u)
                   => /\ is_user_registered(Store', u)
                      /\ dialogs'[u] = <<[chat_mode |-> DefaultChatMode,
                                           model |-> DefaultModel,
                                           messages |-> <<>>]>>
                      /\ users'[u].current_dialog_id = 1
                      /\ user_semaphores'[u] = 1]_vars

\* /cancel was the first request of a user: no task handle existed
C24_Witness ==
    \E u \in Users :
        /\ ncancels = 1 /\ nops = 0
        /\ is_user_registered(Store, u)
        /\ user_tasks[u] = NoProc

\* C25: for the history of n Turns a generator holds, the composed request
\* has 2n+2 entries: the system entry, then for k = 1..n the user entry of
\* Turn k followed by its assistant entry, then the entry of the new message;
\* the request sent to the provider is this list.
C25_ComposeShape ==
    \A p \in Procs :
        proc[p].gen.st # "none"
        => LET g == proc[p].gen
               h == g.dialog_messages
               n == Len(h)
               out == _compose_completion_messages(g.message_text, h, g.chat_mode)
           IN  /\ Len(out) = 2 * n + 2
               /\ out[1] = [role |-> "system", content |-> g.chat_mode]
               /\ \A k \in 1..n :
                     /\ out[2 * k] = [role |-> "user", content |-> h[k].user]
                     /\ out[2 * k + 1] = [role |-> "assistant", content |-> h[k].bot]
               /\ out[2 * n + 2] = [role |-> "user", content |-> g.message_text]
               /\ g.st = "stream" => g.messages = out

\* a request composed from a history of MaxHist Turns is being answered
C25_Witness ==
    \E p \in Procs :
        /\ proc[p].gen.st = "stream"
        /\ Len(proc[p].gen.dialog_messages) = MaxHist
        /\ Len(proc[p].gen.messages) = 2 * MaxHist + 2

\* C26: a provider failure other than the context-length rejection ends the
\* generator with that failure: no Turn is dropped from the history, no
\* further request is made, and the handler goes on to reply with the
\* generation-failure text.
C26_OtherFailuresPropagate ==
    [][\A p \in Procs, kind \in {"error", "bad_request_other"} :
          ProviderStep(p, Event(kind, UsageChunk))
          => /\ proc'[p].gen.dialog_messages = proc[p].gen.dialog_messages
             /\ proc'[p].gen.attempts = proc[p].gen.attempts
             /\ proc'[p].gen.st = "done"
             /\ proc'[p].pc = "await_error_reply"]_vars

\* C27: for every Turn stored in a dialog of a user, with message id M, every
\* possible result of get_dialog_id(u, M) is a dialog of the user and a
\* 0-based index at which that dialog stores a Turn with message id M; the
\* result is never (None, None).
C27_StoredTurnIsFound ==
    \A u \in Users :
        \A d \in 1..Len(dialogs[u]) :
            \A i \in 1..Len(dialogs[u][d].messages) :
                LET M == dialogs[u][d].messages[i].message_id
                IN  \A r \in get_dialog_id(Store, u, M) :
                        /\ r # NoTarget
                        /\ r[1] \in 1..Len(dialogs[u])
                        /\ r[2] + 1 \in 1..Len(dialogs[u][r[1]].messages)
                        /\ dialogs[u][r[1]].messages[r[2] + 1].message_id = M

\* a message id is stored in two dialogs, one of them not current, and
\* get_dialog_id has a result in each
C27_Witness ==
    \E u \in Users :
        \E d1, d2 \in 1..Len(dialogs[u]) :
            /\ d1 # d2 /\ d1 # users[u].current_dialog_id
            /\ Len(dialogs[u][d1].messages) > 0
            /\ \E r1, r2 \in get_dialog_id(Store, u, dialogs[u][d1].messages[1].message_id) :
                   r1[1] = d1 /\ r2[1] = d2

\* C28: on every reachable store, start_new_dialog(u) for a registered user
\* adds one dialog whose id is the id of no dialog the user had, with no
\* Turns and with the user's current chat mode and model, makes it the
\* current dialog, and leaves the dialogs the user had, and everything of
\* the other users, as they were.
C28_NewDialogIsFreshAndCurrent ==
    \A u \in Users :
        is_user_registered(Store, u)
        => LET D2 == start_new_dialog(Store, u)
               id == get_current_dialog_id(D2, u)
           IN  /\ id \notin 1..Len(dialogs[u])
               /\ DOMAIN D2.dialogs[u] = 1..Len(dialogs[u]) \cup {id}
               /\ D2.dialogs[u][id] =
                      [chat_mode |-> users[u].current_chat_mode,
                       model |-> users[u].current_model,
                       messages |-> <<>>]
               /\ \A d \in 1..Len(dialogs[u]) : D2.dialogs[u][d] = dialogs[u][d]
               /\ D2.users = [users EXCEPT ![u].current_dialog_id = id]
               /\ \A x \in Users \ {u} : D2.dialogs[x] = dialogs[x]

\* the chat-mode choice has started a dialog in the chosen mode while an
\* earlier dialog in another mode keeps its Turn
C28_Witness ==
    \E u \in Users :
        LET cur == users[u].current_dialog_id
        IN  /\ is_user_registered(Store, u)
            /\ cur = Len(dialogs[u]) /\ cur > 1
            /\ dialogs[u][cur] = [chat_mode |-> "code_assistant",
                                  model |-> users[u].current_model,
                                  messages |-> <<>>]
            /\ users[u].current_chat_mode = "code_assistant"
            /\ dialogs[u][1].chat_mode = DefaultChatMode
            /\ Len(dialogs[u][1].messages) = 1

\* C29 (as claimed): no step changes or removes a stored Turn: every dialog
\* is still stored after the step and its Turns before the step are a prefix
\* of its Turns after it.
C29_TurnsOnlyAppended ==
    [][\A u \in Users :
          \A d \in 1..Len(dialogs[u]) :
              LET old == dialogs[u][d].messages
              IN  /\ d <= Len(dialogs'[u])
                  /\ Len(old) <= Len(dialogs'[u][d].messages)
                  /\ SubSeq(dialogs'[u][d].messages, 1, Len(old)) = old]_vars

\* C29 (amended): every step but a /retry keeps the Turns of every dialog as
\* a prefix; a /retry that is not rejected removes the last Turn of the
\* user's current dialog and changes no other Turn.
C29_TurnsAppendedOrRetried ==
    [][\A u \in Users :
          \A d \in 1..Len(dialogs[u]) :
              LET old == dialogs[u][d].messages
                  new == dialogs'[u][d].messages
              IN  /\ d <= Len(dialogs'[u])
                  /\ \/ Len(old) <= Len(new) /\ SubSeq(new, 1, Len(old)) = old
                     \/ /\ \E p \in Procs, t \in Times : RetryHandle(p, u, t)
                        /\ d = users[u].current_dialog_id
                        /\ ~Locked(user_semaphores, u)
                        /\ old # <<>>
                        /\ new = SubSeq(old, 1, Len(old) - 1)]_vars

\* /retry has removed the only Turn of the current dialog and the message
\* is being answered again
C29_Witness ==
    \E p \in Procs :
        /\ proc[p].kind = "retry" /\ proc[p].pc = "gen"
        /\ get_dialog_messages(Store, proc[p].user, None) = <<>>
        /\ nops = 2

\* C30: when the Turn of an answer is stored, the dialog it is appended to is
\* the dialog whose Turns were read for the prompt: that dialog holds
\* exactly the Turns that were read, and the new Turn follows them.
C30_TurnJoinsPromptDialog ==
    [][\A p \in Procs :
          (/\ proc[p].pc \in {"await_edit", "await_edit_fallback"}
           /\ proc[p].status = "finished"
           /\ Running(p)
           /\ proc'[p].pc \in {"task_done", "await_toolong_reply"})
          => LET u == proc[p].user
                 g == proc[p].gen
                 d == users'[u].current_dialog_id
                 old == dialogs[u][d].messages
             IN  /\ Len(old) = g.dialog_messages_len_before
                 /\ SubSeq(old, Len(old) - Len(g.dialog_messages) + 1, Len(old))
                        = g.dialog_messages
                 /\ Len(dialogs'[u][d].messages) = Len(old) + 1
                 /\ dialogs'[u][d].messages[Len(old) + 1].message_id
                        = proc[p].placeholder_id]_vars

\* C32: when an answer is stored after the generator has dropped k >= 1
\* Turns from its prompt, the stored dialog keeps all the Turns it had, in
\* order, and gains the new Turn: its length grows by exactly 1.
C32_TrimLeavesStoredTurns ==
    [][\A p \in Procs :
          (/\ proc[p].pc \in {"await_edit", "await_edit_fallback"}
           /\ proc[p].status = "finished"
           /\ Running(p)
           /\ proc'[p].pc \in {"task_done", "await_toolong_reply"}
           /\ Len(proc[p].gen.dialog_messages) < proc[p].gen.dialog_messages_len_before)
          => LET u == proc[p].user
                 d == users[u].current_dialog_id
                 old == dialogs[u][d].messages
                 new == dialogs'[u][d].messages
             IN  /\ Len(old) = proc[p].gen.dialog_messages_len_before
                 /\ Len(new) = Len(old) + 1
                 /\ SubSeq(new, 1, Len(old)) = old
                 /\ new[Len(new)].message_id = proc[p].placeholder_id]_vars

\* the answer to a prompt from which every Turn of a history of MaxHist
\* Turns was dropped has been stored
C32_Witness ==
    \E p \in Procs :
        /\ proc[p].pc = "await_toolong_reply"
        /\ proc[p].n_first_dialog_messages_removed = MaxHist
        /\ Len(get_dialog_messages(Store, proc[p].user, None)) = MaxHist + 1

\* C33: when the message that /retry dispatches again has failed, was
\* cancelled or was refused for lack of tokens, the current dialog still
\* holds the Turn that /retry took out of it (a /retry that found no Turn
\* or a busy slot ends with another outcome).
C33_FailedRetryKeepsTurn ==
    \A p \in Procs :
        (/\ proc[p].kind = "retry"
         /\ \/ proc[p].pc = "done" /\ proc[p].outcome \in {"cancelled", "raised", "no_tokens"}
            \/ proc[p].pc = "task_done" /\ proc[p].handler_result = "completion_error")
        => get_dialog_messages(Store, proc[p].user, None) # <<>>

\* C34 (as claimed): when the answer of a /retry on a current dialog of
\* n >= 1 Turns is stored, that dialog is still the current one, no dialog
\* was added, and the dialog has n Turns: the first n-1 as before, the last
\* with the user text of the Turn that was removed and the new answer.
C34_RetryReplacesLastTurn ==
    [][\A p \in Procs :
          (/\ proc[p].kind = "retry"
           /\ proc[p].pc \in {"await_edit", "await_edit_fallback"}
           /\ proc[p].status = "finished"
           /\ Running(p)
           /\ proc'[p].pc \in {"task_done", "await_toolong_reply"})
          => LET u == proc[p].user
                 n == next_message_id - 2
                 before == StoreAfter(n)
                 old == get_dialog_messages(before, u, None)
                 new == dialogs'[u][users'[u].current_dialog_id].messages
             IN  /\ users'[u].current_dialog_id = before.users[u].current_dialog_id
                 /\ Len(dialogs'[u]) = Len(before.dialogs[u])
                 /\ Len(new) = n
                 /\ SubSeq(new, 1, n - 1) = SubSeq(old, 1, n - 1)
                 /\ new[n].user = old[n].user
                 /\ new[n].bot = proc[p].answer
                 /\ new[n].message_id = proc[p].placeholder_id]_vars

\* C34 (amended): the same, for a /retry whose message causes no context
\* switch (it is no reply, or a reply that resolves to the last Turn left in
\* the current dialog).
C34_RetryWithoutSwitchReplacesLastTurn ==
    [][\A p \in Procs :
          (/\ proc[p].kind = "retry"
           /\ proc[p].context_switch = "NOT_NEEDED"
           /\ proc[p].pc \in {"await_edit", "await_edit_fallback"}
           /\ proc[p].status = "finished"
           /\ Running(p)
           /\ proc'[p].pc \in {"task_done", "await_toolong_reply"})
          => LET u == proc[p].user
                 n == next_message_id - 2
                 before == StoreAfter(n)
                 old == get_dialog_messages(before, u, None)
                 new == dialogs'[u][users'[u].current_dialog_id].messages
             IN  /\ users'[u].current_dialog_id = before.users[u].current_dialog_id
                 /\ Len(dialogs'[u]) = Len(before.dialogs[u])
                 /\ Len(new) = n
                 /\ SubSeq(new, 1, n - 1) = SubSeq(old, 1, n - 1)
                 /\ new[n].user = old[n].user
                 /\ new[n].bot = proc[p].answer
                 /\ new[n].message_id = proc[p].placeholder_id]_vars

\* a /retry sent 12 hours after the last interaction, on a dialog of MaxHist
\* Turns, has been answered in the same dialog
C34_Witness ==
    \E p \in Procs :
        /\ proc[p].kind = "retry" /\ proc[p].pc = "task_done"
        /\ proc[p].handler_result = "ok"
        /\ now = TickSeconds
        /\ Len(dialogs[proc[p].user]) = 1
        /\ Len(get_dialog_messages(Store, proc[p].user, None)) = MaxHist
        /\ get_dialog_messages(Store, proc[p].user, None)[MaxHist].message_id
               = proc[p].placeholder_id

\* C35: when a dispatch is at the generation-failure report, no Turn of its
\* message is stored, and the usage entry of the model and the remaining
\* token quota of the user are the ones read when the dispatch began.
C35_FailureStoresNothing ==
    \A p \in Procs :
        IsMessageTask(proc[p]) /\ proc[p].pc = "await_error_reply"
        => LET u == proc[p].user
           IN  /\ ~TurnStored(p)
               /\ users[u].n_used_tokens[proc[p].current_model] = proc[p].used_at_start
               /\ users[u].n_remaining_tokens = proc[p].current_n_remaining_tokens

\* C36: in every state, for every registered user, the remaining token quota
\* plus the input and output counters of all models is the quota the user
\* was registered with.
C36_QuotaConserved ==
    \A u \in Users :
        is_user_registered(Store, u)
        => LET used(m) == IF users[u].n_used_tokens[m] = Absent THEN 0
                          ELSE users[u].n_used_tokens[m].n_input_tokens
                               + users[u].n_used_tokens[m].n_output_tokens
               RECURSIVE Sum(_)
               Sum(M) == IF M = {} THEN 0
                         ELSE LET m == CHOOSE x \in M : TRUE
                              IN  used(m) + Sum(M \ {m})
           IN  users[u].n_remaining_tokens + Sum(OPENAI_SUPPORTED_MODELS)
                  = USER_N_REMAINING_TOKENS_INITIAL_VALUE

\* ---------------------------------------------------------------------------
\* SpecDay: a message arrives at time 0 from a user whose last interaction
\* was d half-days earlier (d in 0..MaxDayTicks), so the elapsed time of the
\* timeout check at lines 434-438 reaches one day and more
MaxDayTicks == 3

InitDay ==
    \E n \in 0..MaxHist, d \in 0..MaxDayTicks :
        LET S == StoreAfter(n)
            D0 == [S EXCEPT !.users["u1"].last_interaction = 0 - d * TickSeconds]
            B0 == [D |-> D0,
                   sems |-> [u \in Users |-> IF u = "u1" THEN 1 ELSE None],
                   tasks |-> [u \in Users |-> NoProc]]
            r == message_handle(B0, 1, [IdleProc EXCEPT !.kind = "message"],
                                "u1", "hello", NoReply, NoTarget, TRUE, 0)
        IN  /\ users = r.B.D.users
            /\ dialogs = r.B.D.dialogs
            /\ user_semaphores = r.B.sems
            /\ user_tasks = r.B.tasks
            /\ proc = [p \in Procs |-> IF p = 1 THEN r.rec ELSE IdleProc]
            /\ next_message_id = n + 1
            /\ now = 0
            /\ nops = MaxOps
            /\ ncancels = MaxCancels
            /\ user_cache = [u \in Users |-> NoUserDoc]

SpecDay == InitDay /\ [][NextGen]_vars

\* C39: with the timeout check enabled, the handler starts a new dialog
\* exactly when the time elapsed since the last interaction exceeds
\* new_dialog_timeout and the current dialog has at least one Turn, whatever
\* the elapsed time is
C39_NewDialogExactlyOnTimeout ==
    [][\A p \in Procs, t \in Times :
          TaskStart(p, t) /\ proc[p].use_new_dialog_timeout
          => LET u == proc[p].user
                 elapsed == t - get_last_interaction(Store, u)
             IN  (proc'[p].pc = "await_timeout_reply"
                  /\ users'[u].current_dialog_id # users[u].current_dialog_id)
                 <=> (elapsed > new_dialog_timeout
                      /\ Len(get_dialog_messages(Store, u, None)) >= 1)]_vars

\* ---------------------------------------------------------------------------
\* SpecImage: image requests of one user in the chat mode "artist".
\* message_handle hands the message to generate_image_handle at lines 417-420,
\* before it takes the user's semaphore; generate_image_handle never takes it.

\* lines 375-420 and 741-761: the entry of an image request up to its first
\* await
GenerateImageHandle(p, u, text, t) ==
    /\ Free(p) /\ nops < MaxOps
    /\ get_current_chat_mode(Store, u) = "artist"
    /\ LET B1 == register_user_if_not_registered(BotState, u, t)
           rec == [IdleProc EXCEPT !.kind = "image", !.user = u,
                                   !.message_text = text]
           B2 == update_last_interaction(B1, u, t)
           current_n_remaining_generated_images ==
               _get_user_attribute(B2.D, u, "n_remaining_generated_images")
       IN  IF is_previous_message_not_answered_yet(B1, u)
           THEN /\ SetBotState(B1)
                /\ proc' = [proc EXCEPT ![p] = Done(rec, "busy", FALSE)]
           ELSE /\ SetBotState(B2)
                /\ proc' = [proc EXCEPT ![p] =
                       IF current_n_remaining_generated_images <= 0
                       THEN [rec EXCEPT !.pc = "await_limit_reply"]
                       ELSE [rec EXCEPT !.pc = "await_upload_action",
                                        !.current_n_remaining_generated_images =
                                            current_n_remaining_generated_images]]
    /\ nops' = nops + 1 /\ now' = t
    /\ UNCHANGED <<next_message_id, ncancels, user_cache>>

\* line 758: the reply "image generation limit reached" returns or raises
ImageLimitReplied(p, ok) ==
    /\ proc[p].pc = "await_limit_reply"
    /\ proc' = [proc EXCEPT ![p] =
                   Done(proc[p], IF ok THEN "image_limit" ELSE "raised", ~ok)]
    /\ UNCHANGED <<users, dialogs, user_semaphores, user_tasks, next_message_id,
                   now, nops, ncancels, user_cache>>

\* lines 761-766: send_action returns or raises; an empty text ends the request
UploadActionSent(p, ok) ==
    /\ proc[p].pc = "await_upload_action"
    /\ proc' = [proc EXCEPT ![p] =
                   IF ~ok THEN Done(@, "raised", TRUE)
                   ELSE IF @.message_text = "" THEN Done(@, "empty", FALSE)
                   ELSE [@ EXCEPT !.pc = "await_images"]]
    /\ UNCHANGED <<users, dialogs, user_semaphores, user_tasks, next_message_id,
                   now, nops, ncancels, user_cache>>

\* lines 768-787: generate_images returns the image urls or raises; after a
\* successful generation the two counters are written
ImagesGenerated(p, res) ==
    /\ proc[p].pc = "await_images"
    /\ LET rec == proc[p]
           u == rec.user
           n_generated_images == _get_user_attribute(Store, u, "n_generated_images")
           new_n_generated_images == n_generated_images + return_n_generated_images
           D1 == _set_user_attribute(Store, u, "n_generated_images",
                                     new_n_generated_images)
           new_n_remaining_generated_images ==
               rec.current_n_remaining_generated_images - 1
           D2 == _set_user_attribute(D1, u, "n_remaining_generated_images",
                                     new_n_remaining_generated_images)
       IN  IF res = "ok"
           THEN /\ users' = D2.users /\ dialogs' = D2.dialogs
                /\ proc' = [proc EXCEPT ![p] = [rec EXCEPT !.pc = "await_photo"]]
           ELSE /\ proc' = [proc EXCEPT ![p] =
                       IF res = "invalid_request"
                       THEN Done(rec, "invalid_request", FALSE)
                       ELSE Done(rec, "raised", TRUE)]
                /\ UNCHANGED <<users, dialogs>>
    /\ UNCHANGED <<user_semaphores, user_tasks, next_message_id, now, nops, ncancels, user_cache>>

\* lines 789-791: the photo is sent, or sending it raises
PhotoReplied(p, ok) ==
    /\ proc[p].pc = "await_photo"
    /\ proc' = [proc EXCEPT ![p] =
                   Done(proc[p], IF ok THEN "image_sent" ELSE "raised", ~ok)]
    /\ UNCHANGED <<users, dialogs, user_semaphores, user_tasks, next_message_id,
                   now, nops, ncancels, user_cache>>

\* the user is registered, has chosen the chat mode "artist", and k image
\* requests have been served one after the other
InitImage ==
    \E k \in {0, USER_N_REMAINING_GENERATED_IMAGES_INITIAL_VALUE - 1,
               USER_N_REMAINING_GENERATED_IMAGES_INITIAL_VALUE} :
        LET D0 == set_current_chat_mode(StoreAfter(0), "u1", "artist")
            D1 == _set_user_attribute(D0, "u1", "n_generated_images",
                                      k * return_n_generated_images)
            D2 == _set_user_attribute(D1, "u1", "n_remaining_generated_images",
                      USER_N_REMAINING_GENERATED_IMAGES_INITIAL_VALUE - k)
        IN  /\ users = D2.users
            /\ dialogs = D2.dialogs
            /\ user_semaphores = [u \in Users |-> IF u = "u1" THEN 1 ELSE None]
            /\ user_tasks = [u \in Users |-> NoProc]
            /\ proc = [p \in Procs |-> IdleProc]
            /\ next_message_id = 1
            /\ now = 0
            /\ nops = 0
            /\ ncancels = MaxCancels
            /\ user_cache = [u \in Users |-> NoUserDoc]

NextImage ==
    \/ \E p \in Procs, text \in MessageTexts, t \in Times :
           GenerateImageHandle(p, "u1", text, t)
    \/ \E p \in Procs, ok \in BOOLEAN : ImageLimitReplied(p, ok)
    \/ \E p \in Procs, ok \in BOOLEAN : UploadActionSent(p, ok)
    \/ \E p \in Procs, res \in {"ok", "invalid_request", "error"} :
           ImagesGenerated(p, res)
    \/ \E p \in Procs, ok \in BOOLEAN : PhotoReplied(p, ok)

SpecImage == InitImage /\ [][NextImage]_vars

\* C37: for every user, after k image generations of that user have
\* succeeded (n_generated_images counts them: lines 782-784 run without an
\* await), the remaining-image quota is its initial value minus k
C37_ImageQuotaCountsGenerations ==
    \A u \in Users :
        is_user_registered(Store, u)
        => users[u].n_remaining_generated_images
              = USER_N_REMAINING_GENERATED_IMAGES_INITIAL_VALUE
                - users[u].n_generated_images \div return_n_generated_images

\* ---------------------------------------------------------------------------
\* SpecCache: the user cache of firestore.py.  The handlers run on the asyncio
\* thread, one database call at a time; _on_reset_user_cache is the on_snapshot
\* callback of the collection "reset_user_cache" (lines 72-73) and runs on the
\* thread of the Firestore watch, at any point of a database call.  In the
\* specifications above no reset arrives and no store write fails, so a read
\* through the cache is a read of the store and user_cache is left as it is
\* after construction.
MaxCacheOps == 3

\* the attribute writes of SpecCache: (key, value)
CacheWrites == {<<"current_chat_mode", "code_assistant">>,
                <<"n_remaining_tokens", USER_N_REMAINING_TOKENS_INITIAL_VALUE - 7>>}

\* the asyncio thread is inside _get_user_dict, before its last statement
InGetUserDict == \E q \in Procs : proc[q].pc = "cache_get"

\* bot.py:99-111 after is_user_registered has returned: the user is registered
\* when the answer was False, and the semaphore is created
RegisterAfter(p, u, registered) ==
    LET D1 == IF registered THEN Store
              ELSE start_new_dialog(register_new_user(Store, u, now), u)
    IN  /\ users' = D1.users /\ dialogs' = D1.dialogs
        /\ user_semaphores' = [user_semaphores EXCEPT ![u] = IF @ = None THEN 1 ELSE @]
        /\ proc' = [proc EXCEPT ![p] =
                       Done([IdleProc EXCEPT !.kind = "register", !.user = u],
                            IF registered THEN "registered" ELSE "registered_new",
                            FALSE)]

\* register_user_if_not_registered calls is_user_registered (lines 82-83) and
\* that _get_user_dict, lines 331-350: the membership test, and on a miss the
\* read of the store and _update_user_cache; the call stops before the
\* statement "return self.user_cache.get(user_id)" of line 333 or 352
GetUserDict(p, u) ==
    /\ Free(p) /\ nops < MaxCacheOps /\ ~InGetUserDict
    /\ IF ~user_cache[u].exists /\ ~users[u].exists
       THEN RegisterAfter(p, u, FALSE) /\ UNCHANGED user_cache
       ELSE /\ user_cache' = IF ~user_cache[u].exists
                             THEN [user_cache EXCEPT ![u] = users[u]]
                             ELSE user_cache
            /\ proc' = [proc EXCEPT ![p] =
                           [IdleProc EXCEPT !.kind = "register", !.user = u,
                                            !.pc = "cache_get"]]
            /\ UNCHANGED <<users, dialogs, user_semaphores>>
    /\ nops' = nops + 1
    /\ UNCHANGED <<user_tasks, next_message_id, now, ncancels>>

\* line 333 or 352: self.user_cache.get(user_id) on the dict that user_cache
\* names now; None makes is_user_registered answer False
GetUserDictGet(p) ==
    /\ proc[p].pc = "cache_get"
    /\ RegisterAfter(p, proc[p].user, user_cache[proc[p].user].exists)
    /\ UNCHANGED <<user_tasks, next_message_id, now, nops, ncancels, user_cache>>

\* lines 354-356, on the watch thread
OnResetUserCache ==
    /\ user_cache' = [u \in Users |-> NoUserDoc]
    /\ UNCHANGED <<users, dialogs, user_semaphores, user_tasks, proc,
                   next_message_id, now, nops, ncancels>>

\* lines 372-379: the cached entry is updated, then the update of the
\* document returns or raises
SetUserAttribute(u, key, value, ok) ==
    /\ nops < MaxCacheOps /\ ~InGetUserDict
    /\ users[u].exists
    /\ user_cache' = IF user_cache[u].exists
                     THEN [user_cache EXCEPT ![u][key] = value]
                     ELSE user_cache
    /\ users' = IF ok THEN _set_user_attribute(Store, u, key, value).users
                ELSE users
    /\ nops' = nops + 1
    /\ UNCHANGED <<dialogs, user_semaphores, user_tasks, proc, next_message_id,
                   now, ncancels>>

\* the bot starts with an empty cache over a store in which "u1" is unknown
\* or has the documents of n committed messages
InitCache ==
    \E n \in 0..MaxHist, known \in BOOLEAN :
        LET D0 == IF known THEN StoreAfter(n)
                  ELSE [users |-> [u \in Users |-> NoUserDoc],
                        dialogs |-> [u \in Users |-> <<>>]]
        IN  /\ users = D0.users
            /\ dialogs = D0.dialogs
            /\ user_semaphores = [u \in Users |-> None]
            /\ user_tasks = [u \in Users |-> NoProc]
            /\ proc = [p \in Procs |-> IdleProc]
            /\ next_message_id = 1
            /\ now = 0
            /\ nops = 0
            /\ ncancels = MaxCancels
            /\ user_cache = [u \in Users |-> NoUserDoc]

NextCache ==
    \/ \E p \in Procs, u \in Users : GetUserDict(p, u)
    \/ \E p \in Procs : GetUserDictGet(p)
    \/ OnResetUserCache
    \/ \E u \in Users, w \in CacheWrites, ok \in BOOLEAN :
           SetUserAttribute(u, w[1], w[2], ok)

SpecCache == InitCache /\ [][NextCache]_vars

\* C31: once the document of a user exists, is_user_registered answers True
\* for that user whatever the cache-reset callback does meanwhile: the call
\* never registers the user again and leaves the user's document as it is
C31_RegisteredUserStaysRegistered ==
    [][\A p \in Procs, u \in Users :
          /\ users[u].exists
          /\ GetUserDict(p, u) \/ (GetUserDictGet(p) /\ proc[p].user = u)
          => /\ users'[u] = users[u]
             /\ proc'[p].outcome # "registered_new"]_vars

\* C38: after every attribute write, failed or not, and across cache resets,
\* every cached user entry equals the stored user document
C38_CacheAgreesWithStore ==
    \A u \in Users : user_cache[u].exists => user_cache[u] = users[u]


=============================================================================
